---- MODULE Spec2Model ----
(***************************************************************************)
(* Model of the voice pipeline of realtime-voice-platform.                 *)
(*                                                                         *)
(*  - RealtimeStreamingAgent (src/src/agents/voice/arabic-voice-config.ts):*)
(*    one agent instance, its audio buffer and silence timer, its          *)
(*    conversation history and configuration, and the pipeline runs that   *)
(*    are suspended at a backend call.                                     *)
(*      Spec      every entry point except interrupt(), every backend      *)
(*                reply                                                    *)
(*      SpecCall  the agent as the call mode of the server drives it:      *)
(*                processAudioFile, updateConfig, clearHistory, interrupt  *)
(*      SpecHist  as Spec, from a history that holds HistoryLimit turns    *)
(*      SpecProviders  processAudioFile with either transcription backend *)
(*                configured                                               *)
(*      SpecBuffering  continuous audio, its runs and interrupt()         *)
(*      SpecFlush  continuous audio, its runs and clearHistory()           *)
(*      SpecRunsLive  the runs of both entry points, with every backend    *)
(*                call returning or throwing                               *)
(*      SpecSegments  the audio buffer as the frames it holds              *)
(*  - RealtimeVoiceAgent.processAudioStream                                *)
(*    (src/src/agents/framework/enhanced-agent.ts), its audio queue and    *)
(*    the delayed re-submission of queued buffers (SpecRVA; SpecRVALive    *)
(*    with every backend call and every timer completing).                 *)
(*  - VoiceActivityDetector (same file): calibration, the hysteresis       *)
(*    timers of detectSpeech, reset, destroy and the manual overrides      *)
(*    (SpecVAD).                                                           *)
(*  - The stream loop of streamOpenAIResponse and the requests of          *)
(*    streamTTS on the characters of one response (SpecStream).            *)
(*  - processArabicText and the Arabic branch of streamTTS on the          *)
(*    characters of one text (SpecPrepare).                                *)
(*  - openaiSTT and convertToWav on the bytes of one input (SpecWav).      *)
(*  - The call mode of one socket of the server                            *)
(*    (src/src/sdk/javascript/index.ts): its flush timeout, its agent and  *)
(*    the disconnect handler (SpecSession); the process-voice handler of   *)
(*    one socket and the agent it selected (SpecVoice).                    *)
(*  - AudioEngine.processInput and its voice detector                      *)
(*    (src/src/core/audio-engine/index.ts, SpecEngine).                    *)
(*  - MediaService (src/unnamed/part_002): transports, producers,          *)
(*    consumers and cleanup (SpecMedia).                                   *)
(*                                                                         *)
(* Node runs every handler to its next await without interruption, so one  *)
(* action is one handler call or one continuation after a backend reply.   *)
(* A run is the activation of processAudioFile or processBufferedAudio     *)
(* between its isProcessing = true and its return; its local variables     *)
(* (buffer, the number of sentences sent to synthesis) live in its record. *)
(* The log of a run lists the events it emitted ('partial' events are not  *)
(* listed) and the 'interrupted' events emitted while it was suspended.    *)
(* Texts are sequences over the characters "a", "." and " "; the turns of  *)
(* a history are represented by their roles.  streamGroqResponse has the   *)
(* same code as streamOpenAIResponse and is the same actions.              *)
(***************************************************************************)
EXTENDS Naturals, Integers, Sequences, FiniteSets, TLC

VARIABLES
    isProcessing,         \* RealtimeStreamingAgent.isProcessing
    audioBuffer,          \* RealtimeStreamingAgent.audioBuffer: energies of the buffered chunks
    silenceTimer,         \* RealtimeStreamingAgent.silenceTimer: "null", "pending" or "fired"
    conversationHistory,  \* RealtimeStreamingAgent.conversationHistory: roles of the turns
    config,               \* RealtimeStreamingAgent.config
    runs,                 \* the pipeline runs of the agent, one record per slot
    started,              \* number of runs started so far
    lastAudio,            \* what the latest step did with the audio passed to processAudioFile
    finished,             \* the run that the latest step ended, with the events it emitted
    lastInterrupt,        \* what the interrupt() call of the latest step did
    lastClear,            \* turns dropped by the clearHistory() call of the latest step, or -1
    vaIsProcessing,       \* RealtimeVoiceAgent.isProcessing
    audioQueue,           \* RealtimeVoiceAgent.audioQueue
    resubmit,             \* pending setTimeout(processAudioStream(next), 100) calls, oldest first
    vaRun,                \* the run of the RealtimeVoiceAgent
    vaConfig,             \* RealtimeVoiceAgent.config
    vaHistory,            \* RealtimeVoiceAgent.conversationHistory: roles of the turns
    arrived,              \* number of audio buffers that have arrived at processAudioStream
    sttOrder,             \* buffers in the order in which their transcription was requested
    energyThreshold,      \* VoiceActivityDetector.energyThreshold, in thousandths
    silenceThreshold,     \* VoiceActivityDetector.silenceThreshold, in thousandths
    silenceTimeout,       \* VoiceActivityDetector.silenceTimeout, in ms
    speechTimeout,        \* VoiceActivityDetector.speechTimeout, in ms
    vadSilenceTimer,      \* VoiceActivityDetector.silenceTimer holds a timer handle
    speechTimer,          \* VoiceActivityDetector.speechTimer holds a timer handle
    isSpeaking,           \* VoiceActivityDetector.isSpeaking
    analyser,             \* VoiceActivityDetector.analyser is set
    noiseFloor,           \* VoiceActivityDetector.noiseFloor, in thousandths
    calibrationSamples,   \* VoiceActivityDetector.calibrationSamples, in thousandths
    isCalibrating,        \* VoiceActivityDetector.isCalibrating
    monitoring,           \* startMonitoring() has been called
    pendingTimers,        \* the detector's timeouts that the event loop still holds
    window,               \* frames seen since the pending hysteresis timer was armed
    vadEvent,             \* the event that the latest step of the detector emitted
    cancelled,            \* the timeouts that the latest step cleared
    sentences,            \* the sentences of the response that the completion stream carries
    trailing,             \* the number of spaces that follow the last sentence
    streamPc,             \* "idle", "open" while the stream loop runs, "closed" after it
    delivered,            \* characters of the response that have arrived in deltas
    loopBuffer,           \* the variable buffer of the stream loop
    spoken,               \* the synthesis requests of streamTTS: text, voice and speed, in order
    sttAudio,             \* the bytes of the audio passed to openaiSTT
    sttPending,           \* openaiSTT has not yet built its transcription request
    sttFile,              \* the file of the transcription request: its type and bytes
    connected,            \* the socket of the session is connected
    callActive,           \* callActive of the socket's connection handler
    callAgent,            \* callAgent: "null" or "agent"
    agentProcessing,      \* isProcessing of the agent that callAgent holds
    callRuns,             \* processAudioFile runs in flight on an agent that has its listeners
    detachedRuns,         \* runs in flight on an agent whose listeners were removed
    audioChunks,          \* number of chunks in audioChunks
    processingTimer,      \* processingTimer: "null", "live" (its timeout is pending) or "stale"
    pendingFlushes,       \* timeouts of processAccumulatedAudio that the event loop holds
    flushesSinceAudio,    \* timeouts that have fired since the latest accepted chunk
    socketEmit,           \* the event that the latest step passed to socket.emit, or "none"
    flushCancelled,       \* the latest step cleared a pending timeout
    frameBuffer,          \* audioBuffer (audioChunks in the server) as the frames it holds, oldest first
    segments,             \* the merged buffers handed to transcription, in order
    framesArrived,        \* number of frames that have arrived
    framesDiscarded,      \* the frames dropped by clearHistory() and interrupt()
    segProcessing,        \* isProcessing of the agent that owns the buffer
    rawText,              \* the text given to the text preparation
    preparedText,         \* the text the preparation returned
    preparedBy,           \* which preparation ran: none, processArabicText or streamTTS
    pvAgent,              \* whether activeAgents holds an agent for the socket
    pvProcessing,         \* isProcessing of that agent
    pvQueue,              \* audioQueue of that agent: the requests queued while it was busy
    pvTimers,             \* the 100 ms timers of the shifted requests, oldest first
    pvRun,                \* the run of processAudioStream in flight and whether a process-voice handler awaits it
    pvListeners,          \* the once-listeners of the agent per event, each named by the request that registered it
    pvSocket,             \* the events emitted to the socket, each with the request whose results it carries
    pvRequests,           \* number of process-voice requests received
    pvCompleted,          \* the requests whose run reached the end of its try block
    speechFrames,         \* VoiceActivityDetector.speechFrames
    silenceFrames,        \* VoiceActivityDetector.silenceFrames
    engineOutput,         \* what the last processInput returned: none, null or encoded
    lastFrameLoud,        \* whether the energy of the last frame was above the threshold
    loudRun,              \* the number of consecutive frames above the threshold up to the last such frame
    framesSeen,           \* number of frames given to processInput
    transports,           \* MediaService.transports: the participants that hold a transport
    producers,            \* MediaService.producers: participant id to the number of its producer
    consumers,            \* MediaService.consumers: key to the consumer, with its participant and its producer
    producersMade,        \* number of producers created
    cleaned,              \* the argument of the cleanup() that made the last step, if one did
    closedNow             \* the objects closed by the last step

rsaVars == <<isProcessing, audioBuffer, silenceTimer, conversationHistory, config,
             runs, started, lastAudio, finished, lastInterrupt, lastClear>>
rvaVars == <<vaIsProcessing, audioQueue, resubmit, vaRun, vaHistory, arrived, sttOrder,
             vaConfig>>
vadVars == <<energyThreshold, silenceThreshold, silenceTimeout, speechTimeout,
             vadSilenceTimer, speechTimer, isSpeaking, analyser, noiseFloor,
             calibrationSamples, isCalibrating, monitoring, pendingTimers, window,
             vadEvent, cancelled>>
streamVars == <<sentences, trailing, streamPc, delivered, loopBuffer, spoken>>
wavVars == <<sttAudio, sttPending, sttFile>>
srvVars == <<connected, callActive, callAgent, agentProcessing, callRuns, detachedRuns, audioChunks, processingTimer, pendingFlushes, flushesSinceAudio, socketEmit, flushCancelled>>
segVars == <<frameBuffer, segments, framesArrived, framesDiscarded, segProcessing>>
prepVars == <<rawText, preparedText, preparedBy>>
pvVars == <<pvAgent, pvProcessing, pvQueue, pvTimers, pvRun, pvListeners, pvSocket, pvRequests, pvCompleted>>
engVars == <<speechFrames, silenceFrames, engineOutput, lastFrameLoud, loudRun, framesSeen>>
mediaVars == <<transports, producers, consumers, producersMade, cleaned, closedNow>>
vars == <<isProcessing, audioBuffer, silenceTimer, conversationHistory, config,
          runs, started, lastAudio, finished, lastInterrupt, lastClear,
          vaIsProcessing, audioQueue, resubmit, vaRun, vaHistory, arrived, sttOrder,
          vaConfig,
          energyThreshold, silenceThreshold, silenceTimeout, speechTimeout,
          vadSilenceTimer, speechTimer, isSpeaking, analyser, noiseFloor,
          calibrationSamples, isCalibrating, monitoring, pendingTimers, window,
          vadEvent, cancelled,
          sentences, trailing, streamPc, delivered, loopBuffer, spoken,
          sttAudio, sttPending, sttFile,
          connected, callActive, callAgent, agentProcessing, callRuns, detachedRuns, audioChunks, processingTimer, pendingFlushes, flushesSinceAudio, socketEmit, flushCancelled,
          frameBuffer, segments, framesArrived, framesDiscarded, segProcessing,
          rawText, preparedText, preparedBy,
          pvAgent, pvProcessing, pvQueue, pvTimers, pvRun, pvListeners, pvSocket, pvRequests, pvCompleted,
          speechFrames, silenceFrames, engineOutput, lastFrameLoud, loudRun, framesSeen,
          transports, producers, consumers, producersMade, cleaned, closedNow>>

----------------------------------------------------------------------------
(* Bounds of the model *)

NSlots == 2        \* pipeline runs that may be suspended at the same time
MaxRuns == 2       \* runs started in one behaviour
MaxChunks == 2     \* chunks of one response stream
MaxBuffer == 2     \* chunks held in audioBuffer
MaxArrivals == 4   \* audio buffers passed to processAudioStream
MaxSamples == 5    \* samples of one calibration
MaxWindow == 3     \* frames seen while one hysteresis timer is pending
MaxSentences == 2  \* sentences of one streamed response
MaxTrailing == 2   \* spaces after the last sentence of a streamed response
MaxAudioLen == 5   \* bytes of one audio input
MaxHeld == 2       \* chunks held in audioChunks
MaxCallRuns == 2   \* runs of the call agents in flight at the same time
MaxFrames == 3     \* frames that arrive in one behaviour
MaxTextLen == 3    \* characters of a text given to the text preparation
MaxRequests == 3   \* process-voice requests of one socket
MaxEngineFrames == 16  \* frames given to the audio engine
MaxProducers == 2  \* producers created in one behaviour

(* Program constants *)

SpeechEnergy == 1   \* 0.01, in hundredths: a chunk is speech when its energy is above it
HistoryLimit == 20  \* turns kept by getLLMResponse

Slots == 1..NSlots
Energies == {1, 2}                     \* 0.01 (silence) and 0.02 (speech)
Voices == {"nova", "alloy"}
Chunks == {<<"a", ".", " ">>, <<"a", ".">>, <<" ">>}   \* stream deltas
Responses == {<<>>, <<"a", ".">>}                      \* non-streaming completions
SttTexts == {<<>>, <<" ">>, <<"a">>}                   \* texts of a transcription
Providers == {"openai", "groq"}

----------------------------------------------------------------------------
(* Events emitted by a run, in order *)

Ev(e) == [e |-> e, s |-> 0]
AudioEv(k) == [e |-> "audio", s |-> k]

IdleRun ==
    [pc |-> "idle", entry |-> "none", mode |-> "none", buffer |-> <<>>,
     nchunks |-> 0, nsent |-> 0, tts |-> {}, log |-> <<>>,
     startVoice |-> "none", voice |-> "none", stt |-> <<>>, transcript |-> "none"]

Active(r) == runs[r].pc # "idle"

TrimHistory(h) ==
    IF Len(h) > HistoryLimit THEN SubSeq(h, Len(h) - HistoryLimit + 1, Len(h)) ELSE h

IsBlank(text) == \A i \in 1..Len(text) : text[i] = " "

SentenceMatch(buf) ==
    \E i \in 1..(Len(buf) - 1) : buf[i] \in {".", "!", "?"} /\ buf[i + 1] = " "

\* the stream loop reading on without awaiting streamTTS
StreamNoAwait(run) == TRUE

\* await this.streamTTS(buffer): the stream loop resumes once the call has settled
StreamMayAdvance(run) == run.tts = {}

\* a run that does not emit its 'response' event
ResponseLogMissing(log) == log

\* this.emit('response', ...)
ResponseLog(log) == Append(log, Ev("response"))

\* a catch block that swallows the failure
ErrorLogMissing(log) == log

\* catch (error) { this.emit('error', error) }
ErrorLog(log) == Append(log, Ev("error"))

\* streamTTS up to its await: a blank text returns at once, any other text
\* is sent to the synthesis backend with the voice configured at this moment
StreamTTS(run, text, cfg) ==
    IF IsBlank(text) THEN run
    ELSE [run EXCEPT !.nsent = @ + 1, !.tts = @ \cup {run.nsent + 1},
                     !.voice = cfg.ttsVoice]

CanStart == started < MaxRuns /\ \E r \in Slots : ~Active(r)

FreeSlot == CHOOSE r \in Slots : ~Active(r) /\ \A q \in Slots : ~Active(q) => r <= q

NewRun(entry, cfg) ==
    [IdleRun EXCEPT !.pc = "stt", !.entry = entry, !.startVoice = cfg.ttsVoice,
                    !.stt = <<cfg.sttProvider>>]

\* run r stays suspended, now in state run
Continue(r, run) ==
    /\ runs' = [runs EXCEPT ![r] = run]
    /\ finished' = IdleRun

\* a return that leaves isProcessing set
FinishBusy(r, run) ==
    /\ runs' = [runs EXCEPT ![r] = IdleRun]
    /\ finished' = [run EXCEPT !.pc = "idle"]
    /\ UNCHANGED isProcessing

\* run r returns through its finally block (or through isProcessing = false; return)
Finish(r, run) ==
    /\ runs' = [runs EXCEPT ![r] = IdleRun]
    /\ finished' = [run EXCEPT !.pc = "idle"]
    /\ isProcessing' = FALSE

----------------------------------------------------------------------------
(* RealtimeStreamingAgent *)

RSAInit ==
    /\ isProcessing = FALSE
    /\ audioBuffer = <<>>
    /\ silenceTimer = "null"
    /\ config = [streamResponse |-> TRUE, ttsVoice |-> "nova", sttProvider |-> "openai"]
    /\ runs = [r \in Slots |-> IdleRun]
    /\ started = 0
    /\ lastAudio = "none"
    /\ finished = IdleRun
    /\ lastInterrupt = "none"
    /\ lastClear = -1

\* processAudioFile(audioData) called with the configuration cfg in effect
ProcessAudioFileWith(cfg) ==
    /\ config' = cfg
    /\ IF isProcessing
       THEN /\ lastAudio' = "dropped"
            /\ UNCHANGED <<isProcessing, runs, started>>
       ELSE /\ CanStart
            /\ isProcessing' = TRUE
            /\ runs' = [runs EXCEPT ![FreeSlot] = NewRun("file", cfg)]
            /\ started' = started + 1
            /\ lastAudio' = "started"
    /\ finished' = IdleRun
    /\ UNCHANGED <<audioBuffer, silenceTimer, conversationHistory>>
    /\ lastInterrupt' = "none"
    /\ lastClear' = -1
    /\ UNCHANGED <<rvaVars, vadVars, streamVars, wavVars, srvVars, segVars, prepVars, pvVars, engVars, mediaVars>>

ProcessAudioFile == ProcessAudioFileWith(config)

\* socket.on('process-realtime-voice') for a socket whose agent exists
ProcessRealtimeVoice ==
    \E v \in Voices, s \in BOOLEAN :
        ProcessAudioFileWith([config EXCEPT !.ttsVoice = v, !.streamResponse = s])

UpdateConfig ==
    /\ \E v \in Voices, s \in BOOLEAN :
         config' = [config EXCEPT !.ttsVoice = v, !.streamResponse = s]
    /\ lastAudio' = "none"
    /\ finished' = IdleRun
    /\ UNCHANGED <<isProcessing, audioBuffer, silenceTimer, conversationHistory,
                   runs, started>>
    /\ lastInterrupt' = "none"
    /\ lastClear' = -1
    /\ UNCHANGED <<rvaVars, vadVars, streamVars, wavVars, srvVars, segVars, prepVars, pvVars, engVars, mediaVars>>

\* updateConfig({ sttProvider })
UpdateSttProvider ==
    /\ \E p \in Providers : config' = [config EXCEPT !.sttProvider = p]
    /\ lastAudio' = "none"
    /\ finished' = IdleRun
    /\ UNCHANGED <<isProcessing, audioBuffer, silenceTimer, conversationHistory,
                   runs, started>>
    /\ lastInterrupt' = "none"
    /\ lastClear' = -1
    /\ UNCHANGED <<rvaVars, vadVars, streamVars, wavVars, srvVars, segVars, prepVars, pvVars, engVars, mediaVars>>

ProcessContinuousAudio ==
    \E energy \in Energies :
        /\ Len(audioBuffer) < MaxBuffer
        /\ audioBuffer' = Append(audioBuffer, energy)
        /\ silenceTimer' =
             IF energy > SpeechEnergy THEN "null"
             ELSE IF silenceTimer = "null" THEN "pending" ELSE silenceTimer
        /\ lastAudio' = "none"
        /\ finished' = IdleRun
        /\ UNCHANGED <<isProcessing, conversationHistory, config, runs, started>>
        /\ lastInterrupt' = "none"
        /\ lastClear' = -1
        /\ UNCHANGED <<rvaVars, vadVars, streamVars, wavVars, srvVars, segVars, prepVars, pvVars, engVars, mediaVars>>

\* a flush that is skipped only while a run is in progress
FlushSkippedWhenBusy == isProcessing

\* if (this.isProcessing || this.audioBuffer.length === 0) return
FlushSkipped == isProcessing \/ Len(audioBuffer) = 0

\* the silence timer expires and calls processBufferedAudio
SilenceTimerFires ==
    /\ silenceTimer = "pending"
    /\ silenceTimer' = "fired"
    /\ IF FlushSkipped
       THEN UNCHANGED <<isProcessing, audioBuffer, runs, started>>
       ELSE /\ CanStart
            /\ isProcessing' = TRUE
            /\ audioBuffer' = <<>>
            /\ runs' = [runs EXCEPT ![FreeSlot] = NewRun("buffered", config)]
            /\ started' = started + 1
    /\ lastAudio' = "none"
    /\ finished' = IdleRun
    /\ UNCHANGED <<conversationHistory, config>>
    /\ lastInterrupt' = "none"
    /\ lastClear' = -1
    /\ UNCHANGED <<rvaVars, vadVars, streamVars, wavVars, srvVars, segVars, prepVars, pvVars, engVars, mediaVars>>

\* a clearHistory() that drops the buffered audio only
HistoryKept(history) == history

\* this.conversationHistory = []
HistoryCleared(history) == <<>>

ClearHistory ==
    /\ conversationHistory' = HistoryCleared(conversationHistory)
    /\ audioBuffer' = <<>>
    /\ lastAudio' = "none"
    /\ finished' = IdleRun
    /\ UNCHANGED <<isProcessing, silenceTimer, config, runs, started>>
    /\ lastInterrupt' = "none"
    /\ lastClear' = Len(conversationHistory)
    /\ UNCHANGED <<rvaVars, vadVars, streamVars, wavVars, srvVars, segVars, prepVars, pvVars, engVars, mediaVars>>

Interrupt ==
    /\ IF isProcessing
       THEN /\ isProcessing' = FALSE
            /\ audioBuffer' = <<>>
            /\ runs' = [r \in Slots |->
                          IF Active(r)
                          THEN [runs[r] EXCEPT !.log = Append(@, Ev("interrupted"))]
                          ELSE runs[r]]
            /\ lastInterrupt' = "emitted"
       ELSE /\ lastInterrupt' = "ignored"
            /\ UNCHANGED <<isProcessing, audioBuffer, runs>>
    /\ lastAudio' = "none"
    /\ finished' = IdleRun
    /\ UNCHANGED <<silenceTimer, conversationHistory, config, started>>
    /\ lastClear' = -1
    /\ UNCHANGED <<rvaVars, vadVars, streamVars, wavVars, srvVars, segVars, prepVars, pvVars, engVars, mediaVars>>

\* a primary backend whose failure is not retried
NoFallback(run) == FALSE

\* groqSTT catches its failure and returns this.openaiSTT(audioData)
HasFallback(run) == run.stt = <<"groq">>

\* response.text.trim(), as tested by if (!transcript)
Heard(text) == IF IsBlank(text) THEN "empty" ELSE "text"

\* the transcription backend that run r awaits returns a text or throws
STTCompletes(r) ==
    /\ runs[r].pc = "stt"
    /\ LET run == runs[r]
       IN  \/ \E text \in SttTexts :
                IF Heard(text) = "empty"
                THEN \* no transcript: isProcessing = false; return
                     /\ Finish(r, [run EXCEPT
                                     !.transcript = "empty",
                                     !.log = IF run.entry = "file"
                                             THEN Append(@, Ev("nospeech")) ELSE @])
                     /\ UNCHANGED conversationHistory
                ELSE \* emit 'transcript', then streamLLMResponse or getLLMResponse
                     LET streams == run.entry = "buffered" /\ config.streamResponse
                     IN  /\ Continue(r, [run EXCEPT
                                           !.transcript = "text",
                                           !.log = Append(@, Ev("transcript")),
                                           !.pc = IF streams THEN "stream" ELSE "llm",
                                           !.mode = IF streams THEN "streaming"
                                                    ELSE "buffered"])
                         /\ conversationHistory' = Append(conversationHistory, "user")
                         /\ UNCHANGED isProcessing
           \/ IF HasFallback(run)
              THEN \* the fallback request is sent
                   /\ Continue(r, [run EXCEPT !.stt = Append(@, "openai")])
                   /\ UNCHANGED <<isProcessing, conversationHistory>>
              ELSE \* speechToText catches the failure, emits 'error' and returns
                   \* null: isProcessing = false; return
                   /\ Finish(r, [run EXCEPT
                                   !.transcript = "null",
                                   !.log = IF run.entry = "file"
                                           THEN @ \o <<Ev("error"), Ev("nospeech")>>
                                           ELSE Append(@, Ev("error"))])
                   /\ UNCHANGED conversationHistory
    /\ lastAudio' = "none"
    /\ UNCHANGED <<audioBuffer, silenceTimer, config, started>>
    /\ lastInterrupt' = "none"
    /\ lastClear' = -1
    /\ UNCHANGED <<rvaVars, vadVars, streamVars, wavVars, srvVars, segVars, prepVars, pvVars, engVars, mediaVars>>

\* the completion awaited by getLLMResponse of run r returns or throws
LLMCompletes(r) ==
    /\ runs[r].pc = "llm"
    /\ \/ \E response \in Responses :
            LET run == runs[r]
                said == StreamTTS([run EXCEPT !.log = ResponseLog(@)], response, config)
            IN  /\ conversationHistory' =
                       TrimHistory(Append(conversationHistory, "assistant"))
                /\ IF said.tts # {}
                   THEN /\ Continue(r, [said EXCEPT !.pc = "tts"])
                        /\ UNCHANGED isProcessing
                   ELSE Finish(r, IF run.entry = "file"
                                  THEN [said EXCEPT !.log = Append(@, Ev("complete"))]
                                  ELSE said)
       \/ /\ Finish(r, [runs[r] EXCEPT !.log = ErrorLog(@)])
          /\ UNCHANGED conversationHistory
    /\ lastAudio' = "none"
    /\ UNCHANGED <<audioBuffer, silenceTimer, config, started>>
    /\ lastInterrupt' = "none"
    /\ lastClear' = -1
    /\ UNCHANGED <<rvaVars, vadVars, streamVars, wavVars, srvVars, segVars, prepVars, pvVars, engVars, mediaVars>>

\* the stream of run r delivers its next chunk
StreamChunk(r) ==
    /\ runs[r].pc = "stream"
    /\ runs[r].nchunks < MaxChunks
    /\ StreamMayAdvance(runs[r])
    /\ \E content \in Chunks :
         LET run == [runs[r] EXCEPT !.nchunks = @ + 1]
             buffer == run.buffer \o content
         IN  Continue(r, IF SentenceMatch(buffer)
                         THEN [StreamTTS(run, buffer, config) EXCEPT !.buffer = <<>>]
                         ELSE [run EXCEPT !.buffer = buffer])
    /\ lastAudio' = "none"
    /\ UNCHANGED <<isProcessing, audioBuffer, silenceTimer, conversationHistory, config,
                   started>>
    /\ lastInterrupt' = "none"
    /\ lastClear' = -1
    /\ UNCHANGED <<rvaVars, vadVars, streamVars, wavVars, srvVars, segVars, prepVars, pvVars, engVars, mediaVars>>

\* the assistant turn and the 'response' event that end a streaming run
StreamDone(r, run) ==
    /\ Finish(r, [run EXCEPT !.log = ResponseLog(@)])
    /\ conversationHistory' = Append(conversationHistory, "assistant")

\* the stream of run r ends
StreamEnds(r) ==
    /\ runs[r].pc = "stream"
    /\ StreamMayAdvance(runs[r])
    /\ LET run == runs[r]
           said == IF run.buffer # <<>> THEN StreamTTS(run, run.buffer, config) ELSE run
       IN  IF said.tts # {}
           THEN /\ Continue(r, [said EXCEPT !.pc = "final"])
                /\ UNCHANGED <<isProcessing, conversationHistory>>
           ELSE StreamDone(r, said)
    /\ lastAudio' = "none"
    /\ UNCHANGED <<audioBuffer, silenceTimer, config, started>>
    /\ lastInterrupt' = "none"
    /\ lastClear' = -1
    /\ UNCHANGED <<rvaVars, vadVars, streamVars, wavVars, srvVars, segVars, prepVars, pvVars, engVars, mediaVars>>

\* creating or reading the stream of run r throws
StreamFails(r) ==
    /\ runs[r].pc = "stream"
    /\ StreamMayAdvance(runs[r])
    /\ Finish(r, [runs[r] EXCEPT !.log = ErrorLog(@)])
    /\ lastAudio' = "none"
    /\ UNCHANGED <<audioBuffer, silenceTimer, conversationHistory, config, started>>
    /\ lastInterrupt' = "none"
    /\ lastClear' = -1
    /\ UNCHANGED <<rvaVars, vadVars, streamVars, wavVars, srvVars, segVars, prepVars, pvVars, engVars, mediaVars>>

\* the synthesis call for sentence k of run r returns (ok) or throws
TTSCompletes(r) ==
    /\ \E k \in runs[r].tts, ok \in BOOLEAN :
         LET run == [runs[r] EXCEPT !.tts = @ \ {k},
                                    !.log = IF ok THEN Append(@, AudioEv(k)) ELSE @]
         IN  CASE run.pc = "tts" ->
                    /\ Finish(r, IF run.entry = "file"
                                 THEN [run EXCEPT !.log = Append(@, Ev("complete"))]
                                 ELSE run)
                    /\ UNCHANGED conversationHistory
               [] run.pc = "final" /\ run.tts = {} ->
                    StreamDone(r, run)
               [] OTHER ->
                    /\ Continue(r, run)
                    /\ UNCHANGED <<isProcessing, conversationHistory>>
    /\ lastAudio' = "none"
    /\ UNCHANGED <<audioBuffer, silenceTimer, config, started>>
    /\ lastInterrupt' = "none"
    /\ lastClear' = -1
    /\ UNCHANGED <<rvaVars, vadVars, streamVars, wavVars, srvVars, segVars, prepVars, pvVars, engVars, mediaVars>>

\* every entry point of the agent except interrupt(), and every backend reply
AgentNext ==
    \/ ProcessAudioFile
    \/ ProcessRealtimeVoice
    \/ UpdateConfig
    \/ ProcessContinuousAudio
    \/ SilenceTimerFires
    \/ ClearHistory
    \/ \E r \in Slots : STTCompletes(r)
    \/ \E r \in Slots : LLMCompletes(r)
    \/ \E r \in Slots : StreamChunk(r)
    \/ \E r \in Slots : StreamEnds(r)
    \/ \E r \in Slots : StreamFails(r)
    \/ \E r \in Slots : TTSCompletes(r)

\* an agent driven as the server drives its call agent: processAudioFile,
\* updateConfig, clearHistory and interrupt
CallNext ==
    \/ ProcessAudioFile
    \/ ProcessRealtimeVoice
    \/ UpdateConfig
    \/ ClearHistory
    \/ Interrupt
    \/ \E r \in Slots : STTCompletes(r)
    \/ \E r \in Slots : LLMCompletes(r)
    \/ \E r \in Slots : TTSCompletes(r)

\* processAudioFile with either transcription backend configured
ProvidersNext ==
    \/ UpdateSttProvider
    \/ ProcessAudioFile
    \/ ClearHistory
    \/ \E r \in Slots : STTCompletes(r)
    \/ \E r \in Slots : LLMCompletes(r)
    \/ \E r \in Slots : TTSCompletes(r)

\* continuous audio with interrupt()
BufferingNext ==
    \/ ProcessContinuousAudio
    \/ SilenceTimerFires
    \/ Interrupt
    \/ \E r \in Slots : STTCompletes(r)
    \/ \E r \in Slots : StreamChunk(r)
    \/ \E r \in Slots : StreamEnds(r)
    \/ \E r \in Slots : StreamFails(r)
    \/ \E r \in Slots : TTSCompletes(r)

\* continuous audio, its flushes and clearHistory(), without interrupt()
FlushNext ==
    \/ ProcessContinuousAudio
    \/ SilenceTimerFires
    \/ ClearHistory
    \/ \E r \in Slots : STTCompletes(r)
    \/ \E r \in Slots : StreamChunk(r)
    \/ \E r \in Slots : StreamEnds(r)
    \/ \E r \in Slots : StreamFails(r)
    \/ \E r \in Slots : TTSCompletes(r)

\* the runs of processAudioFile and of processBufferedAudio under the
\* constructor's configuration
RunsNext ==
    \/ ProcessAudioFile
    \/ ProcessContinuousAudio
    \/ SilenceTimerFires
    \/ \E r \in Slots : STTCompletes(r)
    \/ \E r \in Slots : LLMCompletes(r)
    \/ \E r \in Slots : StreamChunk(r)
    \/ \E r \in Slots : StreamEnds(r)
    \/ \E r \in Slots : StreamFails(r)
    \/ \E r \in Slots : TTSCompletes(r)

\* every backend call of every run returns or throws, and every stream ends
RunsFairness ==
    \A r \in Slots :
        /\ WF_vars(STTCompletes(r))
        /\ WF_vars(LLMCompletes(r))
        /\ WF_vars(TTSCompletes(r))
        /\ WF_vars(StreamEnds(r) \/ StreamFails(r))

----------------------------------------------------------------------------
(* RealtimeVoiceAgent.processAudioStream *)

\* the values of VoiceAgentConfig.llmProvider
LlmProviders == {"openai", "groq", "mixed"}

GroqInputLimit == 50   \* input.length < 50

\* lengths of a trimmed, non-empty transcript
InputLengths == {1, GroqInputLimit - 1, GroqInputLimit, GroqInputLimit + 1}

VAIdleRun == [pc |-> "idle", audio |-> 0, input |-> 0, backend |-> "none"]

\* createVoiceAssistant() with its default provider
RVAIdle ==
    /\ vaIsProcessing = FALSE
    /\ audioQueue = <<>>
    /\ resubmit = <<>>
    /\ vaRun = VAIdleRun
    /\ vaConfig = [llmProvider |-> "mixed"]
    /\ vaHistory = <<>>
    /\ arrived = 0
    /\ sttOrder = <<>>

\* processAudioStream(audio) up to its first await
ProcessAudioStream(audio) ==
    IF vaIsProcessing
    THEN /\ audioQueue' = Append(audioQueue, audio)
         /\ UNCHANGED <<vaIsProcessing, vaRun, sttOrder>>
    ELSE /\ vaIsProcessing' = TRUE
         /\ vaRun' = [VAIdleRun EXCEPT !.pc = "stt", !.audio = audio]
         /\ sttOrder' = Append(sttOrder, audio)
         /\ UNCHANGED audioQueue

\* the finally block of processAudioStream
VAFinish ==
    /\ vaIsProcessing' = FALSE
    /\ vaRun' = VAIdleRun

\* a new audio buffer arrives; buffers are numbered in arrival order
VAArrive ==
    /\ arrived < MaxArrivals
    /\ arrived' = arrived + 1
    /\ ProcessAudioStream(arrived + 1)
    /\ UNCHANGED <<resubmit, vaHistory, vaConfig>>
    /\ UNCHANGED <<rsaVars, vadVars, streamVars, wavVars, srvVars, segVars, prepVars, pvVars, engVars, mediaVars>>

\* the 100 ms timer of the oldest shifted buffer expires
VAResubmit ==
    /\ resubmit # <<>>
    /\ resubmit' = Tail(resubmit)
    /\ ProcessAudioStream(Head(resubmit))
    /\ UNCHANGED <<arrived, vaHistory, vaConfig>>
    /\ UNCHANGED <<rsaVars, vadVars, streamVars, wavVars, srvVars, segVars, prepVars, pvVars, engVars, mediaVars>>

UsesGroqUpToLimit(provider, n) ==
    provider = "groq" \/ (provider = "mixed" /\ n <= GroqInputLimit)

\* the condition under which generateResponse calls generateGroqResponse
UsesGroq(provider, n) ==
    provider = "groq" \/ (provider = "mixed" /\ n < GroqInputLimit)

\* the backend generateResponse sends an input of n characters to
GenerateResponse(n) ==
    IF UsesGroq(vaConfig.llmProvider, n) THEN "groq" ELSE "openai"

\* speechToText returns a transcript, an empty transcript, or null on failure;
\* a transcript goes on to generateResponse, up to its awaited completion
VASTTCompletes ==
    /\ vaRun.pc = "stt"
    /\ \E outcome \in {"text", "empty", "fail"} :
         IF outcome = "text"
         THEN \E n \in InputLengths :
                 /\ vaRun' = [vaRun EXCEPT !.pc = "llm", !.input = n,
                                            !.backend = GenerateResponse(n)]
                 /\ vaHistory' = Append(vaHistory, "user")
                 /\ UNCHANGED vaIsProcessing
         ELSE /\ VAFinish
              /\ UNCHANGED vaHistory
    /\ UNCHANGED <<audioQueue, resubmit, arrived, sttOrder, vaConfig>>
    /\ UNCHANGED <<rsaVars, vadVars, streamVars, wavVars, srvVars, segVars, prepVars, pvVars, engVars, mediaVars>>

\* the completion awaited by generateResponse returns or throws
VALLMCompletes ==
    /\ vaRun.pc = "llm"
    /\ \/ /\ vaHistory' = TrimHistory(Append(vaHistory, "assistant"))
          /\ vaRun' = [vaRun EXCEPT !.pc = "tts"]
          /\ UNCHANGED vaIsProcessing
       \/ /\ VAFinish
          /\ UNCHANGED vaHistory
    /\ UNCHANGED <<audioQueue, resubmit, arrived, sttOrder, vaConfig>>
    /\ UNCHANGED <<rsaVars, vadVars, streamVars, wavVars, srvVars, segVars, prepVars, pvVars, engVars, mediaVars>>

\* textToSpeech returns, and the queue is drained by one buffer, or throws
VATTSCompletes ==
    /\ vaRun.pc = "tts"
    /\ VAFinish
    /\ \/ IF audioQueue # <<>>
          THEN /\ audioQueue' = Tail(audioQueue)
               /\ resubmit' = Append(resubmit, Head(audioQueue))
          ELSE UNCHANGED <<audioQueue, resubmit>>
       \/ UNCHANGED <<audioQueue, resubmit>>
    /\ UNCHANGED <<vaHistory, arrived, sttOrder, vaConfig>>
    /\ UNCHANGED <<rsaVars, vadVars, streamVars, wavVars, srvVars, segVars, prepVars, pvVars, engVars, mediaVars>>

\* updateConfig({ llmProvider })
VAUpdateConfig ==
    /\ \E p \in LlmProviders : vaConfig' = [vaConfig EXCEPT !.llmProvider = p]
    /\ UNCHANGED <<vaIsProcessing, audioQueue, resubmit, vaRun, vaHistory, arrived,
                   sttOrder>>
    /\ UNCHANGED <<rsaVars, vadVars, streamVars, wavVars, srvVars, segVars, prepVars, pvVars, engVars, mediaVars>>

VANext ==
    \/ VAUpdateConfig
    \/ VAArrive
    \/ VAResubmit
    \/ VASTTCompletes
    \/ VALLMCompletes
    \/ VATTSCompletes

----------------------------------------------------------------------------
(* VoiceActivityDetector (src/src/agents/framework/enhanced-agent.ts)      *)
(* Energies are in thousandths.  A frame is the smoothed energy that       *)
(* monitor() passes to detectSpeech.  Calibration samples are even, so     *)
(* that 1.5 * noiseFloor is a whole number of thousandths.                 *)

MinEnergyThreshold == 20    \* Math.max(this.noiseFloor * 2, 0.02)
MinSilenceThreshold == 10   \* Math.max(this.noiseFloor * 1.5, 0.01)

CalibrationEnergies == {4, 12}
FrameEnergies == {5, 17, 50}

\* constructor defaults
VadDefaults ==
    [energyThreshold |-> 20, silenceThreshold |-> 10,
     silenceTimeout |-> 1500, speechTimeout |-> 300]

VAD_PRESETS ==
    { [energyThreshold |-> 15, silenceThreshold |-> 8,
       silenceTimeout |-> 1000, speechTimeout |-> 200],
      [energyThreshold |-> 20, silenceThreshold |-> 10,
       silenceTimeout |-> 1500, speechTimeout |-> 300],
      [energyThreshold |-> 30, silenceThreshold |-> 15,
       silenceTimeout |-> 2000, speechTimeout |-> 500],
      [energyThreshold |-> 40, silenceThreshold |-> 20,
       silenceTimeout |-> 2500, speechTimeout |-> 600] }

Max(a, b) == IF a >= b THEN a ELSE b

RECURSIVE Insert(_, _)
Insert(x, sorted) ==
    IF sorted = <<>> THEN <<x>>
    ELSE IF x <= Head(sorted) THEN <<x>> \o sorted
    ELSE <<Head(sorted)>> \o Insert(x, Tail(sorted))

\* [...samples].sort((a, b) => a - b)
RECURSIVE SortAscending(_)
SortAscending(samples) ==
    IF samples = <<>> THEN <<>>
    ELSE Insert(Head(samples), SortAscending(Tail(samples)))

\* the index taken at the median instead of the 75th percentile
MedianIndex(n) == n \div 2

\* Math.floor(sorted.length * 0.75)
PercentileIndex(n) == (3 * n) \div 4

VadInit ==
    /\ energyThreshold = VadDefaults.energyThreshold
    /\ silenceThreshold = VadDefaults.silenceThreshold
    /\ silenceTimeout = VadDefaults.silenceTimeout
    /\ speechTimeout = VadDefaults.speechTimeout
    /\ vadSilenceTimer = FALSE
    /\ speechTimer = FALSE
    /\ isSpeaking = FALSE
    /\ analyser = FALSE
    /\ noiseFloor = 0
    /\ calibrationSamples = <<>>
    /\ isCalibrating = FALSE
    /\ monitoring = FALSE
    /\ pendingTimers = {}
    /\ window = <<>>
    /\ vadEvent = "none"
    /\ cancelled = {}

\* a timeout that stays in the event loop when its handle is dropped
KeepTimeout(handle, name, timers) == timers

\* if (handle) { clearTimeout(handle) }
ClearTimeout(handle, name, timers) == IF handle THEN timers \ {name} ELSE timers

\* initialize(stream) up to the await inside calibrate()
VadInitialize ==
    /\ ~analyser /\ ~isCalibrating /\ ~monitoring
    /\ analyser' = TRUE
    /\ isCalibrating' = TRUE
    /\ calibrationSamples' = <<>>
    /\ vadEvent' = "none"
    /\ cancelled' = {}
    /\ UNCHANGED <<energyThreshold, silenceThreshold, silenceTimeout, speechTimeout,
                   vadSilenceTimer, speechTimer, isSpeaking, noiseFloor, monitoring,
                   pendingTimers, window>>
    /\ UNCHANGED <<rsaVars, rvaVars, streamVars, wavVars, srvVars, segVars, prepVars, pvVars, engVars, mediaVars>>

\* a tick of the sampling interval of calibrate()
VadCalibrationSample ==
    /\ isCalibrating /\ analyser
    /\ Len(calibrationSamples) < MaxSamples
    /\ \E energy \in CalibrationEnergies :
         calibrationSamples' = Append(calibrationSamples, energy)
    /\ vadEvent' = "none"
    /\ cancelled' = {}
    /\ UNCHANGED <<energyThreshold, silenceThreshold, silenceTimeout, speechTimeout,
                   vadSilenceTimer, speechTimer, isSpeaking, analyser, noiseFloor,
                   isCalibrating, monitoring, pendingTimers, window>>
    /\ UNCHANGED <<rsaVars, rvaVars, streamVars, wavVars, srvVars, segVars, prepVars, pvVars, engVars, mediaVars>>

CalculateNoiseFloor ==
    IF Len(calibrationSamples) = 0
    THEN /\ vadEvent' = "none"
         /\ UNCHANGED <<noiseFloor, energyThreshold, silenceThreshold>>
    ELSE LET sorted == SortAscending(calibrationSamples)
             index == PercentileIndex(Len(sorted))
             floor == sorted[index + 1]
         IN  /\ noiseFloor' = floor
             /\ energyThreshold' = Max(floor * 2, MinEnergyThreshold)
             /\ silenceThreshold' = Max((floor * 3) \div 2, MinSilenceThreshold)
             /\ vadEvent' = "calibrated"

\* the timeout of calibrate() ends the calibration; initialize() then starts
\* the monitor.  The sampling interval is older and shorter than the timeout,
\* so it has ticked at least once unless destroy() has dropped the analyser.
VadCalibrationEnds ==
    /\ isCalibrating
    /\ analyser => Len(calibrationSamples) >= 1
    /\ CalculateNoiseFloor
    /\ isCalibrating' = FALSE
    /\ monitoring' = TRUE
    /\ cancelled' = {}
    /\ UNCHANGED <<silenceTimeout, speechTimeout, vadSilenceTimer, speechTimer,
                   isSpeaking, analyser, calibrationSamples, pendingTimers, window>>
    /\ UNCHANGED <<rsaVars, rvaVars, streamVars, wavVars, srvVars, segVars, prepVars, pvVars, engVars, mediaVars>>

Classify(energy) ==
    IF energy > energyThreshold THEN "high"
    ELSE IF energy < silenceThreshold THEN "low"
    ELSE "mid"

DetectSpeech(energy) ==
    IF energy > energyThreshold
    THEN IF ~isSpeaking
         THEN /\ vadSilenceTimer' = FALSE
              /\ speechTimer' = TRUE
              /\ pendingTimers' =
                   ClearTimeout(vadSilenceTimer, "silence", pendingTimers)
                       \cup (IF speechTimer THEN {} ELSE {"speech"})
              /\ cancelled' = IF vadSilenceTimer THEN {"silence"} ELSE {}
         ELSE /\ cancelled' = {}
              /\ UNCHANGED <<vadSilenceTimer, speechTimer, pendingTimers>>
    ELSE IF energy < silenceThreshold
    THEN IF isSpeaking
         THEN /\ speechTimer' = FALSE
              /\ vadSilenceTimer' = TRUE
              /\ pendingTimers' =
                   ClearTimeout(speechTimer, "speech", pendingTimers)
                       \cup (IF vadSilenceTimer THEN {} ELSE {"silence"})
              /\ cancelled' = IF speechTimer THEN {"speech"} ELSE {}
         ELSE /\ speechTimer' = FALSE
              /\ pendingTimers' = ClearTimeout(speechTimer, "speech", pendingTimers)
              /\ cancelled' = IF speechTimer THEN {"speech"} ELSE {}
              /\ UNCHANGED vadSilenceTimer
    ELSE /\ cancelled' = {}
         /\ UNCHANGED <<vadSilenceTimer, speechTimer, pendingTimers>>

\* one pass of monitor() while the detector is running
VadFrame ==
    /\ monitoring /\ analyser /\ ~isCalibrating
    /\ Len(window) < MaxWindow
    /\ \E energy \in FrameEnergies :
         /\ DetectSpeech(energy)
         /\ window' = IF pendingTimers' = {} THEN <<>>
                      ELSE IF pendingTimers' \subseteq pendingTimers
                      THEN Append(window, Classify(energy))
                      ELSE <<Classify(energy)>>
    /\ vadEvent' = "none"
    /\ UNCHANGED <<energyThreshold, silenceThreshold, silenceTimeout, speechTimeout,
                   isSpeaking, analyser, noiseFloor, calibrationSamples, isCalibrating,
                   monitoring>>
    /\ UNCHANGED <<rsaVars, rvaVars, streamVars, wavVars, srvVars, segVars, prepVars, pvVars, engVars, mediaVars>>

\* the callback of the speech timer
VadSpeechTimerFires ==
    /\ "speech" \in pendingTimers
    /\ pendingTimers' = pendingTimers \ {"speech"}
    /\ isSpeaking' = TRUE
    /\ vadEvent' = "speechStart"
    /\ speechTimer' = FALSE
    /\ window' = <<>>
    /\ cancelled' = {}
    /\ UNCHANGED <<energyThreshold, silenceThreshold, silenceTimeout, speechTimeout,
                   vadSilenceTimer, analyser, noiseFloor, calibrationSamples,
                   isCalibrating, monitoring>>
    /\ UNCHANGED <<rsaVars, rvaVars, streamVars, wavVars, srvVars, segVars, prepVars, pvVars, engVars, mediaVars>>

\* the callback of the silence timer
VadSilenceTimerFires ==
    /\ "silence" \in pendingTimers
    /\ pendingTimers' = pendingTimers \ {"silence"}
    /\ isSpeaking' = FALSE
    /\ vadEvent' = "speechEnd"
    /\ vadSilenceTimer' = FALSE
    /\ window' = <<>>
    /\ cancelled' = {}
    /\ UNCHANGED <<energyThreshold, silenceThreshold, silenceTimeout, speechTimeout,
                   speechTimer, analyser, noiseFloor, calibrationSamples,
                   isCalibrating, monitoring>>
    /\ UNCHANGED <<rsaVars, rvaVars, streamVars, wavVars, srvVars, segVars, prepVars, pvVars, engVars, mediaVars>>

VadUpdateConfig ==
    /\ \E preset \in VAD_PRESETS :
         /\ energyThreshold' = preset.energyThreshold
         /\ silenceThreshold' = preset.silenceThreshold
         /\ silenceTimeout' = preset.silenceTimeout
         /\ speechTimeout' = preset.speechTimeout
    /\ vadEvent' = "configUpdated"
    /\ cancelled' = {}
    /\ UNCHANGED <<vadSilenceTimer, speechTimer, isSpeaking, analyser, noiseFloor,
                   calibrationSamples, isCalibrating, monitoring, pendingTimers, window>>
    /\ UNCHANGED <<rsaVars, rvaVars, streamVars, wavVars, srvVars, segVars, prepVars, pvVars, engVars, mediaVars>>

\* the part of reset() that destroy() shares
ResetState ==
    /\ isSpeaking' = FALSE
    /\ pendingTimers' =
         ClearTimeout(speechTimer, "speech",
                      ClearTimeout(vadSilenceTimer, "silence", pendingTimers))
    /\ cancelled' = (IF vadSilenceTimer THEN {"silence"} ELSE {})
                        \cup (IF speechTimer THEN {"speech"} ELSE {})
    /\ vadSilenceTimer' = FALSE
    /\ speechTimer' = FALSE
    /\ window' = <<>>

VadReset ==
    /\ ResetState
    /\ vadEvent' = "reset"
    /\ UNCHANGED <<energyThreshold, silenceThreshold, silenceTimeout, speechTimeout,
                   analyser, noiseFloor, calibrationSamples, isCalibrating, monitoring>>
    /\ UNCHANGED <<rsaVars, rvaVars, streamVars, wavVars, srvVars, segVars, prepVars, pvVars, engVars, mediaVars>>

VadDestroy ==
    /\ analyser
    /\ ResetState
    /\ analyser' = FALSE
    /\ calibrationSamples' = <<>>
    /\ vadEvent' = "destroyed"
    /\ UNCHANGED <<energyThreshold, silenceThreshold, silenceTimeout, speechTimeout,
                   noiseFloor, isCalibrating, monitoring>>
    /\ UNCHANGED <<rsaVars, rvaVars, streamVars, wavVars, srvVars, segVars, prepVars, pvVars, engVars, mediaVars>>

ForceStart ==
    /\ isSpeaking' = TRUE
    /\ vadEvent' = "speechStart"
    /\ cancelled' = {}
    /\ UNCHANGED <<energyThreshold, silenceThreshold, silenceTimeout, speechTimeout,
                   vadSilenceTimer, speechTimer, analyser, noiseFloor,
                   calibrationSamples, isCalibrating, monitoring, pendingTimers, window>>
    /\ UNCHANGED <<rsaVars, rvaVars, streamVars, wavVars, srvVars, segVars, prepVars, pvVars, engVars, mediaVars>>

ForceStop ==
    /\ isSpeaking' = FALSE
    /\ vadEvent' = "speechEnd"
    /\ cancelled' = {}
    /\ UNCHANGED <<energyThreshold, silenceThreshold, silenceTimeout, speechTimeout,
                   vadSilenceTimer, speechTimer, analyser, noiseFloor,
                   calibrationSamples, isCalibrating, monitoring, pendingTimers, window>>
    /\ UNCHANGED <<rsaVars, rvaVars, streamVars, wavVars, srvVars, segVars, prepVars, pvVars, engVars, mediaVars>>

VadNext ==
    \/ VadInitialize
    \/ VadCalibrationSample
    \/ VadCalibrationEnds
    \/ VadFrame
    \/ VadSpeechTimerFires
    \/ VadSilenceTimerFires
    \/ VadUpdateConfig
    \/ VadReset
    \/ VadDestroy
    \/ ForceStart
    \/ ForceStop

----------------------------------------------------------------------------
(* The stream loop of streamOpenAIResponse / streamGroqResponse and the     *)
(* requests of streamTTS, on the text of one response.  A character is "a" *)
(* (a Latin letter), "ar" (a letter of the Arabic blocks), a terminator or *)
(* a space.  The stream arrives whole and every synthesis succeeds.        *)

ArabicSpeed == 85        \* speed 0.85, in hundredths
DefaultTtsSpeed == 100   \* ttsSpeed: 1.0

ArabicVoice == "nova"

\* the sentences a response is made of
StreamSentences ==
    {<<"a", ".">>, <<"a", " ", "a", "?">>, <<"ar", ".">>, <<"ar", "a", "a", "!">>}

StreamTexts == UNION {[1..n -> StreamSentences] : n \in 1..MaxSentences}

RECURSIVE Join(_)
Join(ss) ==
    IF ss = <<>> THEN <<>>
    ELSE IF Len(ss) = 1 THEN ss[1]
    ELSE ss[1] \o <<" ">> \o Join(Tail(ss))

\* the text that the deltas of the stream add up to
Reply == Join(sentences) \o [i \in 1..trailing |-> " "]

\* fullResponse += content
FullResponse == SubSeq(Reply, 1, delivered)

\* arabicPattern.test(text)
HasArabic(text) == \E i \in DOMAIN text : text[i] = "ar"

\* the request streamTTS sends to the synthesis backend
SpeechCreate(text) ==
    [text |-> text,
     voice |-> IF HasArabic(text) THEN ArabicVoice ELSE config.ttsVoice,
     speed |-> IF HasArabic(text) THEN ArabicSpeed ELSE DefaultTtsSpeed]

\* a streamTTS that returns at once when the text holds no sentence end
StreamTTSOfSentences(text, requests) ==
    IF ~SentenceMatch(text) THEN requests ELSE Append(requests, SpeechCreate(text))

\* streamTTS(text): a blank text returns at once
StreamTTSRequests(text, requests) ==
    IF IsBlank(text) THEN requests ELSE Append(requests, SpeechCreate(text))

StreamIdle ==
    /\ sentences = <<>>
    /\ trailing = 0
    /\ streamPc = "idle"
    /\ delivered = 0
    /\ loopBuffer = <<>>
    /\ spoken = <<>>

\* one iteration of the stream loop, on a delta of n characters
TextDelta ==
    /\ streamPc = "open"
    /\ \E n \in 1..(Len(Reply) - delivered) :
         LET buffer == loopBuffer \o SubSeq(Reply, delivered + 1, delivered + n)
         IN  /\ delivered' = delivered + n
             /\ IF SentenceMatch(buffer)
                THEN /\ spoken' = StreamTTSRequests(buffer, spoken)
                     /\ loopBuffer' = <<>>
                ELSE /\ loopBuffer' = buffer
                     /\ UNCHANGED spoken
    /\ UNCHANGED <<sentences, trailing, streamPc>>
    /\ UNCHANGED <<rsaVars, rvaVars, vadVars, wavVars, srvVars, segVars, prepVars, pvVars, engVars, mediaVars>>

\* the stream ends: the remaining buffer is sent to streamTTS
TextEnds ==
    /\ streamPc = "open"
    /\ delivered = Len(Reply)
    /\ spoken' = IF loopBuffer # <<>> THEN StreamTTSRequests(loopBuffer, spoken)
                 ELSE spoken
    /\ streamPc' = "closed"
    /\ UNCHANGED <<sentences, trailing, delivered, loopBuffer>>
    /\ UNCHANGED <<rsaVars, rvaVars, vadVars, wavVars, srvVars, segVars, prepVars, pvVars, engVars, mediaVars>>

StreamNext ==
    \/ TextDelta
    \/ TextEnds

----------------------------------------------------------------------------
(* openaiSTT and convertToWav on the bytes of one audio input *)

SampleRate == 16000
NumChannels == 1
BitsPerSample == 16
HeaderLength == 44

\* 0x1A 0x45 0xDF 0xA3
WebMSignature == <<26, 69, 223, 163>>

\* the byte values an input is made of: those of the signature and one other
AudioBytes == {26, 69, 223, 163, 0}

AudioInputs == UNION {[1..n -> AudioBytes] : n \in 0..MaxAudioLen}

\* encoder.encode('RIFF'), 'WAVE', 'fmt ' and 'data'
RIFF == <<82, 73, 70, 70>>
WAVE == <<87, 65, 86, 69>>
FMT == <<102, 109, 116, 32>>
DATA == <<100, 97, 116, 97>>

\* view.setUint32(offset, n, true); n stays below 2^31 here, far from the
\* 2^32 at which the field wraps
SetUint32(n) ==
    <<n % 256, (n \div 256) % 256, (n \div 65536) % 256, (n \div 16777216) % 256>>

\* view.setUint16(offset, n, true)
SetUint16(n) ==
    LET v == n % 65536
    IN  <<v % 256, (v \div 256) % 256>>

IsWebM(uint8Array) ==
    /\ Len(uint8Array) > 4
    /\ SubSeq(uint8Array, 1, 4) = WebMSignature

ConvertToWav(audioData) ==
    LET dataLength == Len(audioData)
        fileLength == dataLength + HeaderLength - 8
    IN  RIFF \o SetUint32(fileLength) \o WAVE
        \o FMT \o SetUint32(16) \o SetUint16(1) \o SetUint16(NumChannels)
        \o SetUint32(SampleRate)
        \o SetUint32((SampleRate * NumChannels * BitsPerSample) \div 8)
        \o SetUint16((NumChannels * BitsPerSample) \div 8)
        \o SetUint16(BitsPerSample)
        \o DATA \o SetUint32(dataLength)
        \o audioData

WavIdle ==
    /\ sttAudio = <<>>
    /\ sttPending = FALSE
    /\ sttFile = [type |-> "none", bytes |-> <<>>]

\* openaiSTT up to its transcription request
OpenaiSTT ==
    /\ sttPending
    /\ sttPending' = FALSE
    /\ sttFile' = IF IsWebM(sttAudio)
                  THEN [type |-> "audio/webm", bytes |-> sttAudio]
                  ELSE [type |-> "audio/wav", bytes |-> ConvertToWav(sttAudio)]
    /\ UNCHANGED sttAudio
    /\ UNCHANGED <<rsaVars, rvaVars, vadVars, streamVars, srvVars, segVars, prepVars, pvVars, engVars, mediaVars>>

----------------------------------------------------------------------------
(* The call mode of one socket of the voice server                         *)
(* (src/src/sdk/javascript/index.ts): the variables of the connection      *)
(* handler, the timeout that flushes audioChunks, and the processAudioFile *)
(* runs of the call agent, reduced to their number and their events.       *)

\* clearTimeout without effect
KeepProcessingTimer(handle, pending) == pending

\* if (processingTimer) clearTimeout(processingTimer)
ClearProcessingTimer(handle, pending) ==
    IF handle = "live" THEN pending - 1 ELSE pending

\* the handle after clearTimeout: it is never set to null
ClearedHandle(handle) == IF handle = "live" THEN "stale" ELSE handle

SessionIdle ==
    /\ connected = FALSE
    /\ callActive = FALSE
    /\ callAgent = "null"
    /\ agentProcessing = FALSE
    /\ callRuns = 0
    /\ detachedRuns = 0
    /\ audioChunks = 0
    /\ processingTimer = "null"
    /\ pendingFlushes = 0
    /\ flushesSinceAudio = 0
    /\ socketEmit = "none"
    /\ flushCancelled = FALSE

\* callAgent.removeAllListeners(); callAgent = null
ReleaseCallAgent ==
    /\ callAgent' = "null"
    /\ agentProcessing' = FALSE
    /\ detachedRuns' = detachedRuns + callRuns
    /\ callRuns' = 0

\* socket.on('start-call')
StartCall ==
    /\ connected
    /\ callActive' = TRUE
    /\ audioChunks' = 0
    /\ IF callAgent = "null"
       THEN callAgent' = "agent" /\ agentProcessing' = FALSE
       ELSE UNCHANGED <<callAgent, agentProcessing>>
    /\ socketEmit' = "none"
    /\ flushCancelled' = FALSE
    /\ UNCHANGED <<connected, callRuns, detachedRuns, processingTimer, pendingFlushes,
                   flushesSinceAudio>>
    /\ UNCHANGED <<rsaVars, rvaVars, vadVars, streamVars, wavVars, segVars, prepVars, pvVars, engVars, mediaVars>>

\* socket.on('call-audio')
CallAudio ==
    /\ connected
    /\ IF ~callActive \/ callAgent = "null"
       THEN UNCHANGED <<audioChunks, processingTimer, pendingFlushes, flushesSinceAudio>>
            /\ flushCancelled' = FALSE
       ELSE /\ audioChunks < MaxHeld
            /\ audioChunks' = audioChunks + 1
            /\ pendingFlushes' = ClearProcessingTimer(processingTimer, pendingFlushes) + 1
            /\ processingTimer' = "live"
            /\ flushCancelled' = (processingTimer = "live")
            /\ flushesSinceAudio' = 0
    /\ socketEmit' = "none"
    /\ UNCHANGED <<connected, callActive, callAgent, agentProcessing, callRuns,
                   detachedRuns>>
    /\ UNCHANGED <<rsaVars, rvaVars, vadVars, streamVars, wavVars, segVars, prepVars, pvVars, engVars, mediaVars>>

\* the timeout armed by call-audio expires: processAccumulatedAudio up to
\* its await, with the part of processAudioFile that runs before its await
ProcessAccumulatedAudio ==
    /\ pendingFlushes > 0
    /\ pendingFlushes' = pendingFlushes - 1
    /\ processingTimer' = IF pendingFlushes = 1 THEN ClearedHandle(processingTimer)
                          ELSE processingTimer
    /\ flushesSinceAudio' = flushesSinceAudio + 1
    /\ IF audioChunks = 0 \/ callAgent = "null"
       THEN UNCHANGED <<audioChunks, agentProcessing, callRuns>>
       ELSE /\ audioChunks' = 0
            /\ IF agentProcessing
               THEN UNCHANGED <<agentProcessing, callRuns>>
               ELSE /\ callRuns + detachedRuns < MaxCallRuns
                    /\ agentProcessing' = TRUE
                    /\ callRuns' = callRuns + 1
    /\ socketEmit' = "none"
    /\ flushCancelled' = FALSE
    /\ UNCHANGED <<connected, callActive, callAgent, detachedRuns>>
    /\ UNCHANGED <<rsaVars, rvaVars, vadVars, streamVars, wavVars, segVars, prepVars, pvVars, engVars, mediaVars>>

\* a run emits 'transcript', 'response' or 'audio' and the listener of the
\* call passes it on
CallRunEmits ==
    /\ callRuns > 0
    /\ socketEmit' = "call-response"
    /\ flushCancelled' = FALSE
    /\ UNCHANGED <<connected, callActive, callAgent, agentProcessing, callRuns,
                   detachedRuns, audioChunks, processingTimer, pendingFlushes,
                   flushesSinceAudio>>
    /\ UNCHANGED <<rsaVars, rvaVars, vadVars, streamVars, wavVars, segVars, prepVars, pvVars, engVars, mediaVars>>

\* a run ends: after 'complete', which has no listener, or after 'error'
CallRunEnds ==
    /\ callRuns > 0
    /\ callRuns' = callRuns - 1
    /\ agentProcessing' = FALSE
    /\ \E failed \in BOOLEAN :
         socketEmit' = IF failed THEN "call-error" ELSE "none"
    /\ flushCancelled' = FALSE
    /\ UNCHANGED <<connected, callActive, callAgent, detachedRuns, audioChunks,
                   processingTimer, pendingFlushes, flushesSinceAudio>>
    /\ UNCHANGED <<rsaVars, rvaVars, vadVars, streamVars, wavVars, segVars, prepVars, pvVars, engVars, mediaVars>>

\* a run on an agent without listeners ends: its events reach nobody, but
\* emit('error') without a listener throws, processAudioFile rejects and the
\* catch block of processAccumulatedAudio emits 'call-error'
DetachedRunEnds ==
    /\ detachedRuns > 0
    /\ detachedRuns' = detachedRuns - 1
    /\ \E failed \in BOOLEAN :
         socketEmit' = IF failed THEN "call-error" ELSE "none"
    /\ flushCancelled' = FALSE
    /\ UNCHANGED <<connected, callActive, callAgent, agentProcessing, callRuns,
                   audioChunks, processingTimer, pendingFlushes, flushesSinceAudio>>
    /\ UNCHANGED <<rsaVars, rvaVars, vadVars, streamVars, wavVars, segVars, prepVars, pvVars, engVars, mediaVars>>

\* socket.on('interrupt-ai'), both handlers
InterruptAi ==
    /\ connected
    /\ IF callAgent # "null"
       THEN /\ audioChunks' = 0
            /\ pendingFlushes' = ClearProcessingTimer(processingTimer, pendingFlushes)
            /\ processingTimer' = ClearedHandle(processingTimer)
            /\ flushCancelled' = (processingTimer = "live")
            /\ agentProcessing' = FALSE
            /\ socketEmit' = "call-response"
       ELSE /\ UNCHANGED <<audioChunks, pendingFlushes, processingTimer, agentProcessing>>
            /\ flushCancelled' = FALSE
            /\ socketEmit' = "none"
    /\ UNCHANGED <<connected, callActive, callAgent, callRuns, detachedRuns,
                   flushesSinceAudio>>
    /\ UNCHANGED <<rsaVars, rvaVars, vadVars, streamVars, wavVars, segVars, prepVars, pvVars, engVars, mediaVars>>

\* socket.on('end-call'), both handlers
EndCall ==
    /\ connected
    /\ callActive' = FALSE
    /\ audioChunks' = 0
    /\ pendingFlushes' = ClearProcessingTimer(processingTimer, pendingFlushes)
    /\ processingTimer' = ClearedHandle(processingTimer)
    /\ flushCancelled' = (processingTimer = "live")
    /\ IF callAgent # "null"
       THEN /\ socketEmit' = "call-response"
            /\ ReleaseCallAgent
       ELSE /\ socketEmit' = "none"
            /\ UNCHANGED <<callAgent, agentProcessing, callRuns, detachedRuns>>
    /\ UNCHANGED <<connected, flushesSinceAudio>>
    /\ UNCHANGED <<rsaVars, rvaVars, vadVars, streamVars, wavVars, segVars, prepVars, pvVars, engVars, mediaVars>>

\* socket.on('disconnect')
Disconnect ==
    /\ connected
    /\ connected' = FALSE
    /\ IF callAgent # "null"
       THEN ReleaseCallAgent
       ELSE UNCHANGED <<callAgent, agentProcessing, callRuns, detachedRuns>>
    /\ socketEmit' = "none"
    /\ flushCancelled' = FALSE
    /\ UNCHANGED <<callActive, audioChunks, processingTimer, pendingFlushes,
                   flushesSinceAudio>>
    /\ UNCHANGED <<rsaVars, rvaVars, vadVars, streamVars, wavVars, segVars, prepVars, pvVars, engVars, mediaVars>>

SessionNext ==
    \/ StartCall
    \/ CallAudio
    \/ ProcessAccumulatedAudio
    \/ CallRunEmits
    \/ CallRunEnds
    \/ DetachedRunEnds
    \/ InterruptAi
    \/ EndCall
    \/ Disconnect

----------------------------------------------------------------------------
(* The audio buffer of an agent as the frames it holds.  A frame is the    *)
(* sequence of its samples and a sample is named by its frame and its      *)
(* position in it.  processBufferedAudio is called by the silence timer;   *)
(* processAccumulatedAudio of the server merges and clears audioChunks in  *)
(* the same way.                                                           *)

FrameLengths == {1, 2}

Frame(id, length) == [j \in 1..length |-> <<id, j>>]

RECURSIVE TotalLength(_)
\* buffers.reduce((acc, buf) => acc + buf.length, 0)
TotalLength(buffers) ==
    IF buffers = <<>> THEN 0 ELSE Len(Head(buffers)) + TotalLength(Tail(buffers))

\* a merge that keeps the first buffer only
MergeFirstBuffer(buffers) == Head(buffers)

\* result.set(buffer, offset) for every buffer, offset advancing by its length
MergeAudioBuffers(buffers) ==
    [i \in 1..TotalLength(buffers) |->
        LET Offset(k) == TotalLength(SubSeq(buffers, 1, k - 1))
            k == CHOOSE n \in DOMAIN buffers :
                     Offset(n) < i /\ i <= Offset(n) + Len(buffers[n])
        IN  buffers[k][i - Offset(k)]]

FrameIds(buffers) == {buffers[k][1][1] : k \in DOMAIN buffers}

SegmentsIdle ==
    /\ frameBuffer = <<>>
    /\ segments = <<>>
    /\ framesArrived = 0
    /\ framesDiscarded = {}
    /\ segProcessing = FALSE

\* this.audioBuffer.push(audioChunk)
FrameArrives ==
    /\ framesArrived < MaxFrames
    /\ \E length \in FrameLengths :
         frameBuffer' = Append(frameBuffer, Frame(framesArrived + 1, length))
    /\ framesArrived' = framesArrived + 1
    /\ UNCHANGED <<segments, framesDiscarded, segProcessing>>
    /\ UNCHANGED <<rsaVars, rvaVars, vadVars, streamVars, wavVars, srvVars, prepVars, pvVars, engVars, mediaVars>>

\* processBufferedAudio up to its first await
FlushFrames ==
    /\ IF segProcessing \/ Len(frameBuffer) = 0
       THEN UNCHANGED <<frameBuffer, segments, segProcessing>>
       ELSE /\ segProcessing' = TRUE
            /\ segments' = Append(segments, MergeAudioBuffers(frameBuffer))
            /\ frameBuffer' = <<>>
    /\ UNCHANGED <<framesArrived, framesDiscarded>>
    /\ UNCHANGED <<rsaVars, rvaVars, vadVars, streamVars, wavVars, srvVars, prepVars, pvVars, engVars, mediaVars>>

\* the run of the segment returns
SegmentRunEnds ==
    /\ segProcessing
    /\ segProcessing' = FALSE
    /\ UNCHANGED <<frameBuffer, segments, framesArrived, framesDiscarded>>
    /\ UNCHANGED <<rsaVars, rvaVars, vadVars, streamVars, wavVars, srvVars, prepVars, pvVars, engVars, mediaVars>>

\* clearHistory(): this.audioBuffer = []
ClearFrames ==
    /\ frameBuffer' = <<>>
    /\ framesDiscarded' = framesDiscarded \cup FrameIds(frameBuffer)
    /\ UNCHANGED <<segments, framesArrived, segProcessing>>
    /\ UNCHANGED <<rsaVars, rvaVars, vadVars, streamVars, wavVars, srvVars, prepVars, pvVars, engVars, mediaVars>>

\* interrupt()
InterruptFrames ==
    /\ IF segProcessing
       THEN /\ segProcessing' = FALSE
            /\ frameBuffer' = <<>>
            /\ framesDiscarded' = framesDiscarded \cup FrameIds(frameBuffer)
       ELSE UNCHANGED <<segProcessing, frameBuffer, framesDiscarded>>
    /\ UNCHANGED <<segments, framesArrived>>
    /\ UNCHANGED <<rsaVars, rvaVars, vadVars, streamVars, wavVars, srvVars, prepVars, pvVars, engVars, mediaVars>>

SegmentsNext ==
    \/ FrameArrives
    \/ FlushFrames
    \/ SegmentRunEnds
    \/ ClearFrames
    \/ InterruptFrames

----------------------------------------------------------------------------
(* The preparation of a text for synthesis: processArabicText and the      *)
(* Arabic branch of streamTTS.  Besides the characters of the stream loop  *)
(* a text may hold the Arabic comma, semicolon and question mark and the   *)
(* directional marks U+202B ("RLE") and U+202C ("PDF").  No text holds one *)
(* of the three phrases that the Egyptian dialect replaces.                *)

TextChars == {"a", "ar", ".", "?", "!", " ", "comma_ar", "semicolon_ar", "question_ar", "RLE", "PDF"}

Texts == UNION {[1..n -> TextChars] : n \in 0..MaxTextLen}

\* [‪-‮]
DirectionalMarks == {"RLE", "PDF"}

\* /[.!?،؛؟]$/ of processArabicText
TerminatorsOfProcessArabicText == {".", "!", "?", "comma_ar", "semicolon_ar", "question_ar"}

\* /[.!?،؟]$/ of streamTTS
TerminatorsOfStreamTTS == {".", "!", "?", "comma_ar", "question_ar"}

\* text.trim()
Trim(text) ==
    LET kept == {i \in DOMAIN text : text[i] # " "}
    IN  IF kept = {} THEN <<>>
        ELSE SubSeq(text, CHOOSE i \in kept : \A j \in kept : i <= j,
                          CHOOSE i \in kept : \A j \in kept : i >= j)

\* .replace(/[‪-‮]/g, '')
RemoveDirectionalMarks(text) == SelectSeq(text, LAMBDA c : c \notin DirectionalMarks)

RECURSIVE NormalizeSpaces(_)
\* .replace(/\s+/g, ' ')
NormalizeSpaces(text) ==
    IF Len(text) < 2 THEN text
    ELSE IF text[1] = " " /\ text[2] = " " THEN NormalizeSpaces(Tail(text))
    ELSE <<text[1]>> \o NormalizeSpaces(Tail(text))

\* '‫' + processed + '‬'
AddRTLMarks(text) == <<"RLE">> \o text \o <<"PDF">>

\* processed.match(/[...]$/)
EndsIn(text, terminators) == text # <<>> /\ text[Len(text)] \in terminators

\* the test for a terminator made on the text before the marks are added
AddPunctuationToBare(text, terminators) ==
    IF ~EndsIn(text, terminators) THEN AddRTLMarks(text) \o <<".">> ELSE AddRTLMarks(text)

\* the marks are added first and the test is made on the marked text
AddPunctuation(text, terminators) ==
    LET processed == AddRTLMarks(text)
    IN  IF ~EndsIn(processed, terminators) THEN processed \o <<".">> ELSE processed

ProcessArabicText(text) ==
    AddPunctuation(NormalizeSpaces(RemoveDirectionalMarks(Trim(text))),
                   TerminatorsOfProcessArabicText)

\* processedText of streamTTS
ProcessedText(text) ==
    IF HasArabic(text)
    THEN AddPunctuation(NormalizeSpaces(RemoveDirectionalMarks(Trim(text))),
                        TerminatorsOfStreamTTS)
    ELSE text

PrepareIdle ==
    /\ rawText = <<>>
    /\ preparedText = <<>>
    /\ preparedBy = "none"

\* processArabicText(text)
PrepareArabicText ==
    /\ preparedBy = "none"
    /\ preparedText' = ProcessArabicText(rawText)
    /\ preparedBy' = "processArabicText"
    /\ UNCHANGED rawText
    /\ UNCHANGED <<rsaVars, rvaVars, vadVars, streamVars, wavVars, srvVars, segVars, pvVars, engVars, mediaVars>>

\* streamTTS(text) up to the synthesis request
PrepareSpeechText ==
    /\ preparedBy = "none"
    /\ ~IsBlank(rawText)
    /\ preparedText' = ProcessedText(rawText)
    /\ preparedBy' = "streamTTS"
    /\ UNCHANGED rawText
    /\ UNCHANGED <<rsaVars, rvaVars, vadVars, streamVars, wavVars, srvVars, segVars, pvVars, engVars, mediaVars>>

PrepareNext ==
    \/ PrepareArabicText
    \/ PrepareSpeechText

----------------------------------------------------------------------------
(* The process-voice handler of one socket and the RealtimeVoiceAgent it   *)
(* selected.  Requests are numbered in arrival order.  The listener of     *)
(* 'response' only logs and is left out.                                   *)

PVIdleRun == [pc |-> "idle", audio |-> 0, awaited |-> FALSE]

NoListeners == [transcript |-> <<>>, audio |-> <<>>, error |-> <<>>]

VoiceIdle ==
    /\ pvAgent = FALSE
    /\ pvProcessing = FALSE
    /\ pvQueue = <<>>
    /\ pvTimers = <<>>
    /\ pvRun = PVIdleRun
    /\ pvListeners = NoListeners
    /\ pvSocket = <<>>
    /\ pvRequests = 0
    /\ pvCompleted = {}

\* what the once-listeners of an event send to the socket when the run of
\* request k emits it
SocketEmits(listeners, event, k) ==
    [i \in 1..Len(listeners) |-> [event |-> event, of |-> k]]

\* agent.once('transcript' | 'response' | 'audio' | 'error') of the handler of request k
OnceListeners(listeners, k) ==
    [transcript |-> Append(listeners.transcript, k),
     audio |-> Append(listeners.audio, k),
     error |-> Append(listeners.error, k)]

\* the handler resumes after `await agent.processAudioStream(...)`
AfterAwait(listeners, k, awaited) ==
    IF awaited THEN OnceListeners(listeners, k) ELSE listeners

\* select-assistant, for a socket without an agent
SelectAssistant ==
    /\ ~pvAgent
    /\ pvAgent' = TRUE
    /\ pvSocket' = Append(pvSocket, [event |-> "assistant-ready", of |-> 0])
    /\ UNCHANGED <<pvProcessing, pvQueue, pvTimers, pvRun, pvListeners, pvRequests,
                   pvCompleted>>
    /\ UNCHANGED <<rsaVars, rvaVars, vadVars, streamVars, wavVars, srvVars, segVars, prepVars, engVars, mediaVars>>

\* socket.on('process-voice') up to the first await that does not resolve at once
ProcessVoice ==
    /\ pvRequests < MaxRequests
    /\ pvRequests' = pvRequests + 1
    /\ LET k == pvRequests + 1
       IN  IF ~pvAgent
           THEN /\ pvSocket' = Append(pvSocket, [event |-> "voice-error", of |-> k])
                /\ UNCHANGED <<pvProcessing, pvQueue, pvRun, pvListeners>>
           ELSE IF pvProcessing
           THEN /\ pvQueue' = Append(pvQueue, k)
                /\ pvListeners' = AfterAwait(pvListeners, k, TRUE)
                /\ UNCHANGED <<pvProcessing, pvRun, pvSocket>>
           ELSE /\ pvProcessing' = TRUE
                /\ pvRun' = [pc |-> "stt", audio |-> k, awaited |-> TRUE]
                /\ UNCHANGED <<pvQueue, pvListeners, pvSocket>>
    /\ UNCHANGED <<pvAgent, pvTimers, pvCompleted>>
    /\ UNCHANGED <<rsaVars, rvaVars, vadVars, streamVars, wavVars, srvVars, segVars, prepVars, engVars, mediaVars>>

\* setTimeout(() => this.processAudioStream(nextAudio), 100) expires
VoiceTimerFires ==
    /\ pvTimers # <<>>
    /\ pvTimers' = Tail(pvTimers)
    /\ IF pvProcessing
       THEN /\ pvQueue' = Append(pvQueue, Head(pvTimers))
            /\ UNCHANGED <<pvProcessing, pvRun>>
       ELSE /\ pvProcessing' = TRUE
            /\ pvRun' = [pc |-> "stt", audio |-> Head(pvTimers), awaited |-> FALSE]
            /\ UNCHANGED pvQueue
    /\ UNCHANGED <<pvAgent, pvListeners, pvSocket, pvRequests, pvCompleted>>
    /\ UNCHANGED <<rsaVars, rvaVars, vadVars, streamVars, wavVars, srvVars, segVars, prepVars, engVars, mediaVars>>

\* the run returns through finally; the handler awaiting it goes on
VoiceRunReturns(listeners, socket) ==
    /\ pvProcessing' = FALSE
    /\ pvRun' = PVIdleRun
    /\ pvListeners' = AfterAwait(listeners, pvRun.audio, pvRun.awaited)
    /\ pvSocket' = socket

\* catch: this.emit('error', error), which throws when no listener is
\* registered; the rejection reaches the catch of the awaiting handler
VoiceRunFails ==
    /\ pvProcessing' = FALSE
    /\ pvRun' = PVIdleRun
    /\ IF pvListeners.error = <<>>
       THEN /\ pvListeners' = pvListeners
            /\ pvSocket' = IF pvRun.awaited
                           THEN Append(pvSocket, [event |-> "voice-error", of |-> pvRun.audio])
                           ELSE pvSocket
       ELSE /\ pvListeners' = AfterAwait([pvListeners EXCEPT !.error = <<>>],
                                         pvRun.audio, pvRun.awaited)
            /\ pvSocket' = pvSocket \o SocketEmits(pvListeners.error, "voice-error", pvRun.audio)

\* speechToText returns a transcript, or nothing
VoiceSTTCompletes ==
    /\ pvRun.pc = "stt"
    /\ \/ /\ pvRun' = [pvRun EXCEPT !.pc = "llm"]
          /\ pvSocket' = pvSocket \o SocketEmits(pvListeners.transcript, "voice-transcript", pvRun.audio)
          /\ pvListeners' = [pvListeners EXCEPT !.transcript = <<>>]
          /\ UNCHANGED pvProcessing
       \/ VoiceRunReturns(pvListeners, pvSocket)
    /\ UNCHANGED <<pvAgent, pvQueue, pvTimers, pvRequests, pvCompleted>>
    /\ UNCHANGED <<rsaVars, rvaVars, vadVars, streamVars, wavVars, srvVars, segVars, prepVars, engVars, mediaVars>>

\* generateResponse returns or throws
VoiceLLMCompletes ==
    /\ pvRun.pc = "llm"
    /\ \/ /\ pvRun' = [pvRun EXCEPT !.pc = "tts"]
          /\ UNCHANGED <<pvProcessing, pvListeners, pvSocket>>
       \/ VoiceRunFails
    /\ UNCHANGED <<pvAgent, pvQueue, pvTimers, pvRequests, pvCompleted>>
    /\ UNCHANGED <<rsaVars, rvaVars, vadVars, streamVars, wavVars, srvVars, segVars, prepVars, engVars, mediaVars>>

\* textToSpeech returns: 'audio' is emitted and the queue is drained by one
\* request; or it throws
VoiceTTSCompletes ==
    /\ pvRun.pc = "tts"
    /\ \/ /\ VoiceRunReturns([pvListeners EXCEPT !.audio = <<>>],
                             pvSocket \o SocketEmits(pvListeners.audio, "voice-response", pvRun.audio))
          /\ pvCompleted' = pvCompleted \cup {pvRun.audio}
          /\ IF pvQueue # <<>>
             THEN /\ pvQueue' = Tail(pvQueue)
                  /\ pvTimers' = Append(pvTimers, Head(pvQueue))
             ELSE UNCHANGED <<pvQueue, pvTimers>>
       \/ /\ VoiceRunFails
          /\ UNCHANGED <<pvQueue, pvTimers, pvCompleted>>
    /\ UNCHANGED <<pvAgent, pvRequests>>
    /\ UNCHANGED <<rsaVars, rvaVars, vadVars, streamVars, wavVars, srvVars, segVars, prepVars, engVars, mediaVars>>

VoiceNext ==
    \/ SelectAssistant
    \/ ProcessVoice
    \/ VoiceTimerFires
    \/ VoiceSTTCompletes
    \/ VoiceLLMCompletes
    \/ VoiceTTSCompletes

----------------------------------------------------------------------------
(* AudioEngine.processInput and its VoiceActivityDetector                  *)
(* (src/src/core/audio-engine/index.ts).  A frame is an Int16Array.        *)

NoiseGate == 100           \* const threshold = 100
ThresholdPercent == 1      \* threshold = 0.01
FullScale == 32768
SpeechFramesRequired == 3  \* this.speechFrames > 3
HangoverFrames == 10       \* this.silenceFrames < 10

\* the frames given to processInput: empty, silent, below the noise gate,
\* just below the energy threshold, and loud
PcmFrames == {<<>>, <<0, 0>>, <<99, -99>>, <<327, 328>>, <<1000, 0>>, <<400, -400>>}

Abs(x) == IF x < 0 THEN -x ELSE x

\* data.map(sample => Math.abs(sample) < threshold ? 0 : sample)
ApplyNoiseSuppression(data) ==
    [i \in DOMAIN data |-> IF Abs(data[i]) < NoiseGate THEN 0 ELSE data[i]]

RECURSIVE SumAbs(_)
SumAbs(data) == IF data = <<>> THEN 0 ELSE Abs(Head(data)) + SumAbs(Tail(data))

\* calculateEnergy(data) > this.threshold, with energy = sum / length / 32768;
\* an empty frame gives NaN, which is not above the threshold
EnergyAboveThreshold(data) ==
    /\ Len(data) > 0
    /\ SumAbs(data) * 100 > ThresholdPercent * FullScale * Len(data)

\* the results of process(data) on the counters after the frame
SpeechResult(frames) == frames > SpeechFramesRequired

SilenceResult(frames) == frames < HangoverFrames

EngineIdle ==
    /\ speechFrames = 0
    /\ silenceFrames = 0
    /\ engineOutput = "none"
    /\ lastFrameLoud = FALSE
    /\ loudRun = 0
    /\ framesSeen = 0

\* processInput(pcmData)
ProcessInput ==
    /\ framesSeen < MaxEngineFrames
    /\ framesSeen' = framesSeen + 1
    /\ \E pcmData \in PcmFrames :
         LET processed == ApplyNoiseSuppression(pcmData)
         IN  IF EnergyAboveThreshold(processed)
             THEN /\ speechFrames' = speechFrames + 1
                  /\ silenceFrames' = 0
                  /\ lastFrameLoud' = TRUE
                  /\ loudRun' = speechFrames + 1
                  /\ engineOutput' = IF SpeechResult(speechFrames + 1) THEN "encoded" ELSE "null"
             ELSE /\ silenceFrames' = silenceFrames + 1
                  /\ speechFrames' = 0
                  /\ lastFrameLoud' = FALSE
                  /\ loudRun' = loudRun
                  /\ engineOutput' = IF SilenceResult(silenceFrames + 1) THEN "encoded" ELSE "null"
    /\ UNCHANGED <<rsaVars, rvaVars, vadVars, streamVars, wavVars, srvVars, segVars, prepVars, pvVars, mediaVars>>

EngineNext == ProcessInput

----------------------------------------------------------------------------
(* MediaService (src/unnamed/part_002).  A participant id and a consumer   *)
(* key are strings, written as sequences of characters.  The router exists *)
(* and every mediasoup call succeeds.                                      *)

ParticipantIds == {<<"u">>, <<"u", "1">>, <<"v">>}

\* producer.id of the n-th producer
ProducerId(n) == <<"p", n>>

\* `${participantId}-${producerId}`
ConsumerKey(participantId, producerId) == participantId \o <<"-">> \o producerId

\* key.startsWith(participantId)
StartsWith(key, prefix) ==
    /\ Len(key) >= Len(prefix)
    /\ SubSeq(key, 1, Len(prefix)) = prefix

NotCleaned == [called |-> FALSE, participantId |-> <<>>]

MediaIdle ==
    /\ transports = {}
    /\ producers = <<>>
    /\ consumers = <<>>
    /\ producersMade = 0
    /\ cleaned = NotCleaned
    /\ closedNow = {}

\* createTransport(participantId)
CreateTransport ==
    /\ \E participantId \in ParticipantIds :
         transports' = transports \cup {participantId}
    /\ cleaned' = NotCleaned
    /\ closedNow' = {}
    /\ UNCHANGED <<producers, consumers, producersMade>>
    /\ UNCHANGED <<rsaVars, rvaVars, vadVars, streamVars, wavVars, srvVars, segVars, prepVars, pvVars, engVars>>

\* createProducer(participantId, sdp, codec)
CreateProducer ==
    /\ producersMade < MaxProducers
    /\ \E participantId \in transports :
         producers' = [q \in DOMAIN producers \cup {participantId} |->
                          IF q = participantId THEN producersMade + 1 ELSE producers[q]]
    /\ producersMade' = producersMade + 1
    /\ cleaned' = NotCleaned
    /\ closedNow' = {}
    /\ UNCHANGED <<transports, consumers>>
    /\ UNCHANGED <<rsaVars, rvaVars, vadVars, streamVars, wavVars, srvVars, segVars, prepVars, pvVars, engVars>>

\* createConsumer(participantId, producerId)
CreateConsumer ==
    /\ \E participantId \in transports, q \in DOMAIN producers :
         LET key == ConsumerKey(participantId, ProducerId(producers[q]))
             consumer == [participantId |-> participantId, producer |-> producers[q]]
         IN  consumers' = [k \in DOMAIN consumers \cup {key} |->
                              IF k = key THEN consumer ELSE consumers[k]]
    /\ cleaned' = NotCleaned
    /\ closedNow' = {}
    /\ UNCHANGED <<transports, producers, producersMade>>
    /\ UNCHANGED <<rsaVars, rvaVars, vadVars, streamVars, wavVars, srvVars, segVars, prepVars, pvVars, engVars>>

\* the consumers whose participant is participantId
ConsumersOf(participantId) ==
    {k \in DOMAIN consumers : consumers[k].participantId = participantId}

\* the consumers that cleanup(participantId) closes and deletes
ConsumersToClean(participantId) ==
    {k \in DOMAIN consumers : StartsWith(k, participantId)}

\* cleanup(participantId)
Cleanup ==
    /\ \E participantId \in ParticipantIds :
         LET keys == ConsumersToClean(participantId)
         IN  /\ transports' = transports \ {participantId}
             /\ producers' = [q \in DOMAIN producers \ {participantId} |-> producers[q]]
             /\ consumers' = [k \in DOMAIN consumers \ keys |-> consumers[k]]
             /\ closedNow' =
                   {[kind |-> "transport", of |-> q] : q \in transports \cap {participantId}}
                   \cup {[kind |-> "producer", of |-> q] : q \in DOMAIN producers \cap {participantId}}
                   \cup {[kind |-> "consumer", of |-> k] : k \in keys}
             /\ cleaned' = [called |-> TRUE, participantId |-> participantId]
    /\ UNCHANGED producersMade
    /\ UNCHANGED <<rsaVars, rvaVars, vadVars, streamVars, wavVars, srvVars, segVars, prepVars, pvVars, engVars>>

MediaNext ==
    \/ CreateTransport
    \/ CreateProducer
    \/ CreateConsumer
    \/ Cleanup

----------------------------------------------------------------------------
(* Specifications *)

Init == RSAInit /\ conversationHistory = <<>> /\ RVAIdle /\ VadInit /\ StreamIdle /\ WavIdle /\ SessionIdle /\ SegmentsIdle /\ PrepareIdle /\ VoiceIdle /\ EngineIdle /\ MediaIdle

\* the agent without interrupt()
Spec == Init /\ [][AgentNext]_vars

\* the agent as the server's call mode drives it, with interrupt()
SpecCall == Init /\ [][CallNext]_vars

\* ten completed non-streaming runs leave HistoryLimit alternating turns
FullHistory == [i \in 1..HistoryLimit |-> IF i % 2 = 1 THEN "user" ELSE "assistant"]

InitHist == RSAInit /\ conversationHistory = FullHistory /\ RVAIdle /\ VadInit /\ StreamIdle /\ WavIdle /\ SessionIdle /\ SegmentsIdle /\ PrepareIdle /\ VoiceIdle /\ EngineIdle /\ MediaIdle

\* the agent from a history that is at its limit
SpecHist == InitHist /\ [][AgentNext]_vars

\* processAudioFile under either transcription backend
SpecProviders == Init /\ [][ProvidersNext]_vars

\* continuous audio with interrupt()
SpecBuffering == Init /\ [][BufferingNext]_vars

SpecFlush == Init /\ [][FlushNext]_vars

SpecRunsLive == Init /\ [][RunsNext]_vars /\ RunsFairness

SpecRVA == Init /\ [][VANext]_vars

\* every backend call returns or throws and every armed timer expires; no
\* audio has to arrive
VAFairness ==
    /\ WF_vars(VAResubmit)
    /\ WF_vars(VASTTCompletes)
    /\ WF_vars(VALLMCompletes)
    /\ WF_vars(VATTSCompletes)

SpecRVALive == Init /\ [][VANext]_vars /\ VAFairness

\* the voice activity detector
SpecVAD == Init /\ [][VadNext]_vars

\* the stream loop on every response of up to MaxSentences sentences
InitStream ==
    /\ RSAInit /\ conversationHistory = <<>> /\ RVAIdle /\ VadInit
    /\ MediaIdle
    /\ EngineIdle
    /\ VoiceIdle
    /\ PrepareIdle
    /\ SegmentsIdle
    /\ SessionIdle
    /\ WavIdle
    /\ sentences \in StreamTexts
    /\ trailing \in 0..MaxTrailing
    /\ streamPc = "open"
    /\ delivered = 0
    /\ loopBuffer = <<>>
    /\ spoken = <<>>

SpecStream == InitStream /\ [][StreamNext]_vars

\* openaiSTT on every input of up to MaxAudioLen bytes
InitWav ==
    /\ RSAInit /\ conversationHistory = <<>> /\ RVAIdle /\ VadInit /\ StreamIdle
    /\ MediaIdle
    /\ EngineIdle
    /\ VoiceIdle
    /\ PrepareIdle
    /\ SegmentsIdle
    /\ SessionIdle
    /\ sttAudio \in AudioInputs
    /\ sttPending = TRUE
    /\ sttFile = [type |-> "none", bytes |-> <<>>]

SpecWav == InitWav /\ [][OpenaiSTT]_vars

\* a connected socket before its first start-call
InitSession ==
    /\ RSAInit /\ conversationHistory = <<>> /\ RVAIdle /\ VadInit /\ StreamIdle
    /\ MediaIdle
    /\ EngineIdle
    /\ VoiceIdle
    /\ PrepareIdle
    /\ SegmentsIdle
    /\ WavIdle
    /\ connected = TRUE
    /\ callActive = FALSE
    /\ callAgent = "null"
    /\ agentProcessing = FALSE
    /\ callRuns = 0
    /\ detachedRuns = 0
    /\ audioChunks = 0
    /\ processingTimer = "null"
    /\ pendingFlushes = 0
    /\ flushesSinceAudio = 0
    /\ socketEmit = "none"
    /\ flushCancelled = FALSE

SpecSession == InitSession /\ [][SessionNext]_vars

SpecSegments == Init /\ [][SegmentsNext]_vars

SpecVoice == Init /\ [][VoiceNext]_vars

SpecEngine == Init /\ [][EngineNext]_vars

SpecMedia == Init /\ [][MediaNext]_vars

InitPrepare ==
    /\ RSAInit
    /\ conversationHistory = <<>>
    /\ RVAIdle
    /\ VadInit
    /\ StreamIdle
    /\ WavIdle
    /\ SessionIdle
    /\ SegmentsIdle
    /\ VoiceIdle
    /\ EngineIdle
    /\ MediaIdle
    /\ rawText \in Texts
    /\ preparedText = <<>>
    /\ preparedBy = "none"

SpecPrepare == InitPrepare /\ [][PrepareNext]_vars

----------------------------------------------------------------------------
(* Properties *)

\* the runs whose events can be observed: the suspended ones and the one
\* that the latest step ended
Observed == {runs[r] : r \in Slots} \cup {finished}

\* C1: at most one pipeline run of the agent is between its start and its
\* end at any time, also when a run is started after interrupt().
C1_SingleFlight == Cardinality({r \in Slots : Active(r)}) <= 1

\* C2: once interrupt() has hit a run that is generating or synthesizing
\* (its transcript is out), that run emits no audio and no complete event.
C2_NothingAfterInterrupt ==
    \A run \in Observed : \A i, j \in DOMAIN run.log :
        ( /\ i < j
          /\ run.log[i].e = "interrupted"
          /\ \E h \in 1..(i - 1) : run.log[h].e = "transcript" )
        => run.log[j].e \notin {"audio", "complete"}

\* C3: the audio events of a run come in the order in which their
\* sentences were handed to synthesis, whichever synthesis call settles first.
C3_AudioInSentenceOrder ==
    \A run \in Observed : \A i, j \in DOMAIN run.log :
        (i < j /\ run.log[i].e = "audio" /\ run.log[j].e = "audio")
        => run.log[i].s < run.log[j].s

\* a streaming run has emitted the audio of two sentences
C3_Witness ==
    \E run \in Observed :
        /\ run.mode = "streaming"
        /\ \E i, j \in DOMAIN run.log :
             i < j /\ run.log[i].e = "audio" /\ run.log[j].e = "audio"

\* C4 as claimed: in every run, streaming or not, every audio event comes
\* after the response event of the run.
C4_ResponseBeforeAudio ==
    \A run \in Observed : \A i \in DOMAIN run.log :
        run.log[i].e = "audio" => \E h \in 1..(i - 1) : run.log[h].e = "response"

\* C4 as amended: in a non-streaming run every audio event comes after the
\* response event; in a streaming run every audio event comes before it.
C4_ResponseBeforeAudioUnlessStreaming ==
    \A run \in Observed : \A i \in DOMAIN run.log :
        run.log[i].e = "audio" =>
            IF run.mode = "streaming"
            THEN \A h \in 1..(i - 1) : run.log[h].e # "response"
            ELSE \E h \in 1..(i - 1) : run.log[h].e = "response"

\* a non-streaming run has emitted its response and then its audio
C4_Witness ==
    \E run \in Observed :
        /\ run.mode = "buffered"
        /\ \E h, i \in DOMAIN run.log :
             h < i /\ run.log[h].e = "response" /\ run.log[i].e = "audio"

\* C5: the conversation history holds at most HistoryLimit turns in every
\* reachable state.
C5_HistoryWithinLimit == Len(conversationHistory) <= HistoryLimit

\* C6: every synthesis request of a run uses the voice that was configured
\* when the run started.
C6_RunKeepsItsConfig ==
    \A run \in Observed : run.voice \in {"none", run.startVoice}

\* C7: audio passed to the agent while it is busy is queued or rejected
\* with a signal, never dropped silently.
C7_BusyAudioQueuedOrRejected == lastAudio \in {"none", "started", "queued", "rejected"}

\* C8: processAudioStream requests the transcription of the buffers in the
\* order of their arrival.
C8_TranscribedInArrivalOrder ==
    \A i, j \in DOMAIN sttOrder : i < j => sttOrder[i] < sttOrder[j]

OnlySilence(buffer) == \A i \in DOMAIN buffer : buffer[i] <= SpeechEnergy

TimerFired == silenceTimer = "pending" /\ silenceTimer' = "fired"

\* C9: when the silence timer fires on a buffer that holds only silent
\* chunks, no segment is taken and no run starts.
C9_SilenceStartsNoRun ==
    [][(TimerFired /\ OnlySilence(audioBuffer))
          => (started' = started /\ isProcessing' = isProcessing)]_vars

\* C10: when the silence timer fires on a buffer that holds speech, the
\* buffer is flushed as one segment to a new run, whatever the pipeline does.
C10_SpeechFlushedOnce ==
    [][(TimerFired /\ ~OnlySilence(audioBuffer))
          => (started' = started + 1 /\ audioBuffer' = <<>>)]_vars

----------------------------------------------------------------------------
(* Properties of the voice activity detector *)

SpeechTimerFlips ==
    /\ "speech" \in pendingTimers /\ "speech" \notin pendingTimers'
    /\ ~isSpeaking /\ isSpeaking' /\ vadEvent' = "speechStart"

SilenceTimerFlips ==
    /\ "silence" \in pendingTimers /\ "silence" \notin pendingTimers'
    /\ isSpeaking /\ ~isSpeaking' /\ vadEvent' = "speechEnd"

\* C11: when the speech timer flips isSpeaking to true, every frame since
\* the timer was armed was above energyThreshold: a frame that is not above
\* it cancels the pending confirmation.
C11_SpeechConfirmed ==
    [][SpeechTimerFlips => \A i \in DOMAIN window : window[i] = "high"]_vars

\* C12: when the silence timer flips isSpeaking to false, every frame since
\* the timer was armed was below silenceThreshold: a frame above
\* energyThreshold cancels the pending speechEnd.
C12_SilenceConfirmed ==
    [][SilenceTimerFlips => \A i \in DOMAIN window : window[i] = "low"]_vars

\* C13: reset() leaves no hysteresis timer pending, in the fields and in the
\* event loop, sets isSpeaking to false and leaves noiseFloor, both
\* thresholds and both timeouts as they were.
C13_ResetKeepsCalibration ==
    [][vadEvent' = "reset" =>
          /\ pendingTimers' = {} /\ ~speechTimer' /\ ~vadSilenceTimer'
          /\ ~isSpeaking'
          /\ UNCHANGED <<noiseFloor, energyThreshold, silenceThreshold,
                         silenceTimeout, speechTimeout>>]_vars

\* reset() has cancelled a pending timer of a calibrated detector
C13_Witness == vadEvent = "reset" /\ cancelled # {} /\ noiseFloor > 0

\* C14: a calibration over n > 0 samples sets noiseFloor to the sample of
\* rank floor(0.75 n) in ascending order, energyThreshold to
\* max(2 noiseFloor, 0.02) and silenceThreshold to max(1.5 noiseFloor, 0.01);
\* a calibration over no sample changes none of the three.
C14_CalibratedThresholds ==
    [][(isCalibrating /\ ~isCalibrating') =>
          IF calibrationSamples = <<>>
          THEN UNCHANGED <<noiseFloor, energyThreshold, silenceThreshold>>
          ELSE LET n == Len(calibrationSamples)
                   rank == (3 * n) \div 4
                   below == {i \in 1..n : calibrationSamples[i] < noiseFloor'}
                   upto == {i \in 1..n : calibrationSamples[i] <= noiseFloor'}
               IN  /\ Cardinality(below) <= rank /\ rank < Cardinality(upto)
                   /\ energyThreshold' =
                        (IF 2 * noiseFloor' >= 20 THEN 2 * noiseFloor' ELSE 20)
                   /\ 2 * silenceThreshold' =
                        (IF 3 * noiseFloor' >= 20 THEN 3 * noiseFloor' ELSE 20)]_vars

\* a calibration over MaxSamples samples whose 75th percentile is neither
\* the largest sample nor one that lifts the thresholds above their minimum
C14_Witness ==
    /\ vadEvent = "calibrated"
    /\ Len(calibrationSamples) >= 5
    /\ \E i \in DOMAIN calibrationSamples : calibrationSamples[i] > noiseFloor
    /\ energyThreshold = 20

----------------------------------------------------------------------------
(* Properties of interrupt() and of the failure paths of a run *)

\* C15: interrupt() in any state of the pipeline, also when no run is in
\* progress and audio is buffered, clears the buffered audio, emits
\* 'interrupted' and leaves the pipeline idle.
C15_InterruptInAnyState ==
    [][lastInterrupt' # "none" =>
          (lastInterrupt' = "emitted" /\ audioBuffer' = <<>> /\ ~isProcessing')]_vars

Emitted(run, events) == {i \in DOMAIN run.log : run.log[i].e \in events}

\* C16: a run whose transcription returns an empty or blank text emits the
\* 'no speech detected' notification and no transcript, response, audio or
\* complete event, leaves the history as it was and ends with the pipeline idle.
C16_EmptyTranscript ==
    [][finished'.transcript = "empty" =>
          /\ Emitted(finished', {"nospeech"}) # {}
          /\ Emitted(finished', {"transcript", "response", "audio", "complete"}) = {}
          /\ conversationHistory' = conversationHistory
          /\ ~isProcessing']_vars

\* C17: a run whose transcription backend failed emits exactly one error
\* event, which is not the 'no speech detected' notification; that
\* notification is emitted only for an empty transcript.
C17_TranscriptionErrorDistinct ==
    \A run \in Observed :
        /\ run.transcript = "null" =>
              /\ Cardinality(Emitted(run, {"error", "nospeech"})) = 1
              /\ Emitted(run, {"nospeech"}) = {}
        /\ Emitted(run, {"nospeech"}) # {} => run.transcript = "empty"

\* C18: the transcription of a run fails only after the primary backend and
\* then the other backend have each been tried once, whichever is primary,
\* and no run makes a third attempt.
C18_OneFallbackAttempt ==
    \A run \in Observed :
        /\ Len(run.stt) <= 2
        /\ Len(run.stt) = 2 => run.stt[1] # run.stt[2]
        /\ run.transcript = "null" => Len(run.stt) = 2

\* the sentences of a run whose synthesis has failed
Failed(run) ==
    {k \in 1..run.nsent : k \notin run.tts /\ \A i \in DOMAIN run.log : run.log[i] # AudioEv(k)}

\* C19: a run in which the synthesis of a sentence failed, streaming or not,
\* still emits the audio of its other sentences and its complete event, and
\* a streaming run still appends the assistant turn.
C19_SynthesisFailureSkipped ==
    [][(finished'.entry # "none" /\ Failed(finished') # {}
            /\ Emitted(finished', {"error"}) = {}) =>
          /\ \A k \in (1..finished'.nsent) \ Failed(finished') :
                \E i \in DOMAIN finished'.log : finished'.log[i] = AudioEv(k)
          /\ Emitted(finished', {"complete"}) # {}
          /\ finished'.mode = "streaming" =>
                conversationHistory' = Append(conversationHistory, "assistant")]_vars

\* a run that had a transcript and ended without a response
GenerationFailed(run) == run.transcript = "text" /\ Emitted(run, {"response"}) = {}

\* C20 as claimed: a run whose response generation failed, streaming or
\* not, has emitted an error event and no audio event.
C20_NoAudioAfterGenerationError ==
    GenerationFailed(finished) =>
        /\ Emitted(finished, {"error"}) # {}
        /\ Emitted(finished, {"audio"}) = {}

\* C20 as amended: a run whose response generation failed has emitted an
\* error event; it has emitted no audio event if it is not streaming, and
\* no audio event after the error event if it is streaming.
C20_NoAudioOnceGenerationFailed ==
    GenerationFailed(finished) =>
        /\ Emitted(finished, {"error"}) # {}
        /\ finished.mode # "streaming" => Emitted(finished, {"audio"}) = {}
        /\ \A i \in Emitted(finished, {"error"}), j \in Emitted(finished, {"audio"}) : j < i

\* the stream of a run failed after the audio of a sentence was emitted
C20_Witness ==
    /\ GenerationFailed(finished)
    /\ finished.mode = "streaming"
    /\ Emitted(finished, {"audio"}) # {}
    /\ Emitted(finished, {"error"}) # {}

----------------------------------------------------------------------------
(* Properties of the events of a run, of clearHistory() and of the flush *)

\* the transcript, response, audio and complete events of a run, in order
MainEvents(run) ==
    SelectSeq([i \in DOMAIN run.log |-> run.log[i].e],
              LAMBDA e : e \in {"transcript", "response", "audio", "complete"})

\* a non-streaming run that had a transcript, a response and a successful synthesis
SucceededBuffered(run) ==
    /\ run.mode = "buffered" /\ run.transcript = "text"
    /\ Emitted(run, {"error"}) = {}
    /\ run.nsent = 1 /\ Failed(run) = {}

\* C21: a non-streaming run with a non-empty transcript whose generation
\* and synthesis succeed emits exactly one transcript, one response, one
\* audio and one complete event, in that order.
C21_BufferedEventOrder ==
    SucceededBuffered(finished) =>
        MainEvents(finished) = <<"transcript", "response", "audio", "complete">>

\* C25: clearHistory() empties the conversation history and leaves the
\* configuration as it was, so that a run started afterwards sends no turn
\* from before the call.
C25_ClearHistory ==
    [][lastClear' >= 0 => (conversationHistory' = <<>> /\ config' = config)]_vars

\* clearHistory() has dropped turns while no run was in flight
C25_Witness == lastClear >= 2 /\ \A r \in Slots : ~Active(r)

\* C28: a flush that finds the audio buffer empty starts no run, requests
\* no transcription, emits no event and leaves the pipeline as it was.
C28_EmptyFlushIsNoOp ==
    [][(TimerFired /\ audioBuffer = <<>>) =>
          /\ UNCHANGED <<isProcessing, audioBuffer, runs, started,
                         conversationHistory, config>>
          /\ finished' = IdleRun]_vars

\* the silence timer has fired on an empty buffer of an agent that has not
\* started a run
C28_Witness == silenceTimer = "fired" /\ audioBuffer = <<>> /\ started = 0

\* C30: the queue of pending audio of a RealtimeVoiceAgent never holds more
\* than one segment.
C30_QueueDepthOne == Len(audioQueue) <= 1

----------------------------------------------------------------------------
(* Properties of the texts sent to synthesis *)

RECURSIVE Concat(_)
Concat(seqs) ==
    IF seqs = <<>> THEN <<>> ELSE Concat(SubSeq(seqs, 1, Len(seqs) - 1)) \o seqs[Len(seqs)]

\* C22: a streamed response yields exactly one audio event per sentence, in
\* order, and the source text of each event is that sentence, however the
\* stream is split into deltas.
C22_OneAudioPerSentence ==
    streamPc = "closed" =>
        /\ Len(spoken) = Len(sentences)
        /\ \A i \in DOMAIN spoken : Trim(spoken[i].text) = sentences[i]

\* the texts handed to synthesis so far, one after the other
Synthesized == Concat([i \in DOMAIN spoken |-> spoken[i].text])

\* C36: while the stream is open the texts handed to synthesis followed by
\* the buffer of the loop are the response received so far; when it has
\* ended the texts handed to synthesis are the full response that is
\* appended to the history, up to blanks at its end.
C36_SynthesizedIsFullResponse ==
    /\ streamPc = "open" => Synthesized \o loopBuffer = FullResponse
    /\ streamPc = "closed" =>
           /\ FullResponse = Reply
           /\ \E n \in 0..Len(Reply) :
                  /\ Synthesized = SubSeq(Reply, 1, n)
                  /\ IsBlank(SubSeq(Reply, n + 1, Len(Reply)))

C36_Witness ==
    /\ streamPc = "closed"
    /\ Len(spoken) = 2
    /\ Len(Synthesized) < Len(Reply)

ArabicCount(text) == Cardinality({i \in DOMAIN text : text[i] = "ar"})

\* C23: a text is synthesized with the Arabic voice and speed when more than
\* 30% of its characters are Arabic, and with the configured voice and speed
\* when fewer than 30% are.
C23_ArabicOverrideAboveThirtyPercent ==
    \A i \in DOMAIN spoken :
        LET text == spoken[i].text
        IN  /\ 10 * ArabicCount(text) > 3 * Len(text) =>
                   (spoken[i].voice = "nova" /\ spoken[i].speed = 85)
            /\ 10 * ArabicCount(text) < 3 * Len(text) =>
                   (spoken[i].voice = config.ttsVoice /\ spoken[i].speed = 100)

----------------------------------------------------------------------------
(* Properties of the audio sent to transcription *)

\* the little-endian number in the two or four bytes after offset
ReadLE(bytes, offset, width) ==
    IF width = 2 THEN bytes[offset + 1] + 256 * bytes[offset + 2]
    ELSE bytes[offset + 1] + 256 * bytes[offset + 2]
         + 65536 * bytes[offset + 3] + 16777216 * bytes[offset + 4]

StartsWithWebM(bytes) == Len(bytes) >= 4 /\ SubSeq(bytes, 1, 4) = <<26, 69, 223, 163>>

\* C24: an input that starts with 1A 45 DF A3 is sent unchanged; any other
\* input is sent behind a 44-byte RIFF/WAVE header for PCM, mono, 16 bit,
\* 16 kHz, whose data size is the input length and whose RIFF size is the
\* input length plus 36.
C24_WebMOrWavHeader ==
    ~sttPending /\ sttFile.type # "none" =>
        IF StartsWithWebM(sttAudio)
        THEN sttFile.bytes = sttAudio
        ELSE LET wav == sttFile.bytes
             IN  /\ Len(wav) = 44 + Len(sttAudio)
                 /\ SubSeq(wav, 1, 4) = <<82, 73, 70, 70>>
                 /\ ReadLE(wav, 4, 4) = Len(sttAudio) + 36
                 /\ SubSeq(wav, 9, 12) = <<87, 65, 86, 69>>
                 /\ ReadLE(wav, 20, 2) = 1
                 /\ ReadLE(wav, 22, 2) = 1
                 /\ ReadLE(wav, 24, 4) = 16000
                 /\ ReadLE(wav, 34, 2) = 16
                 /\ ReadLE(wav, 40, 4) = Len(sttAudio)
                 /\ SubSeq(wav, 45, Len(wav)) = sttAudio

----------------------------------------------------------------------------
(* Properties of the sessions of the server *)

\* C26: once the socket has disconnected no run of the session is in flight,
\* no flush timeout of the session is pending, the call agent is released
\* and nothing is passed to socket.emit.
C26_NothingLeftAfterDisconnect ==
    ~connected =>
        /\ pendingFlushes = 0
        /\ callRuns + detachedRuns = 0
        /\ callAgent = "null"
        /\ socketEmit = "none"

\* C27: at most one flush timeout is pending, and at most one fires between
\* two chunks of audio.
C27_OneFlushTimer == pendingFlushes <= 1 /\ flushesSinceAudio <= 1

C27_Witness ==
    /\ flushCancelled /\ pendingFlushes = 1 /\ processingTimer = "live"
    /\ audioChunks = 2

----------------------------------------------------------------------------
(* Progress of the runs *)

\* C31: every buffer that processAudioStream has queued is eventually passed
\* to transcription, without further input.
C31_QueuedAudioProcessed ==
    \A b \in 1..MaxArrivals :
        (\E i \in DOMAIN audioQueue : audioQueue[i] = b)
            ~> (\E i \in DOMAIN sttOrder : sttOrder[i] = b)

C33_NotificationsFollowIsSpeaking ==
    [][/\ (vadEvent' = "speechStart") <=> (~isSpeaking /\ isSpeaking')
       /\ (vadEvent' = "speechEnd") <=> (isSpeaking /\ ~isSpeaking')]_vars

----------------------------------------------------------------------------
(* Properties of the segments *)

\* the samples handed over so far followed by those still buffered
Kept == Concat(segments) \o Concat(frameBuffer)

Before(a, b) == a[1] < b[1] \/ (a[1] = b[1] /\ a[2] < b[2])

InArrivalOrder == \A i, j \in DOMAIN Kept : i < j => Before(Kept[i], Kept[j])

Flushed == Len(segments') = Len(segments) + 1

FlushMergesAndClears ==
    Flushed =>
        /\ segments'[Len(segments')] = Concat(frameBuffer)
        /\ Len(segments'[Len(segments')]) = TotalLength(frameBuffer)
        /\ frameBuffer' = <<>>

----------------------------------------------------------------------------
(* Properties of the text preparation *)

AnyTerminator == TerminatorsOfProcessArabicText

Punctuation(text) == Len(SelectSeq(text, LAMBDA c : c \in AnyTerminator))

\* the text that the preparation works on
Bare == NormalizeSpaces(RemoveDirectionalMarks(Trim(rawText)))

\* C35: a prepared Arabic text has the punctuation of the given text when
\* that ends in a terminator, and one more '.' when it does not.
C35_PunctuationOnlyWhenMissing ==
    (preparedBy = "processArabicText" \/ (preparedBy = "streamTTS" /\ HasArabic(rawText))) =>
        Punctuation(preparedText) =
            Punctuation(rawText) + (IF EndsIn(Bare, AnyTerminator) THEN 0 ELSE 1)

----------------------------------------------------------------------------
(* Properties of the turns of the history *)

TurnPairs(history) ==
    /\ Len(history) % 2 = 0
    /\ \A i \in DOMAIN history :
          history[i] = (IF i % 2 = 1 THEN "user" ELSE "assistant")

\* C37: whenever the agent is not processing, its history is a sequence of
\* (user, assistant) pairs: it starts with a user turn, roles alternate and
\* every user turn is followed by an assistant turn.
C37_HistoryIsTurnPairs == ~isProcessing => TurnPairs(conversationHistory)

----------------------------------------------------------------------------
(* Properties of the process-voice handler *)

Received(event, k) ==
    Cardinality({i \in DOMAIN pvSocket : pvSocket[i] = [event |-> event, of |-> k]})

\* C38: for every request whose run has completed, the socket has received
\* exactly one voice-transcript and exactly one voice-response with the
\* results of that request.
C38_OneTranscriptAndResponsePerRequest ==
    \A k \in pvCompleted :
        /\ Received("voice-transcript", k) = 1
        /\ Received("voice-response", k) = 1

----------------------------------------------------------------------------
(* Properties of the audio engine *)

\* C39: a frame above the threshold is reported as speech once it is the
\* third in a row; a frame below the threshold is reported as speech only
\* when the frames above the threshold before the silence had reached three
\* in a row and fewer than 10 frames of silence have passed; processInput
\* returns null exactly when no speech is reported.
C39_SpeechAfterThreeFramesAndHangover ==
    engineOutput # "none" =>
        (engineOutput = "encoded") =
            (IF lastFrameLoud THEN loudRun >= 3
             ELSE loudRun >= 3 /\ silenceFrames < 10)

----------------------------------------------------------------------------
(* Properties of the media service *)

\* C40: cleanup(p) closes and removes the transport, the producer and the
\* consumers of p, exactly those, and leaves the transports, producers and
\* consumers of every other participant as they were.
C40_CleanupOnlyItsParticipant ==
    [][cleaned'.called =>
          LET p == cleaned'.participantId
          IN  /\ transports' = transports \ {p}
              /\ producers' = [q \in DOMAIN producers \ {p} |-> producers[q]]
              /\ consumers' = [k \in DOMAIN consumers \ ConsumersOf(p) |-> consumers[k]]
              /\ closedNow' =
                    {[kind |-> "transport", of |-> q] : q \in transports \cap {p}}
                    \cup {[kind |-> "producer", of |-> q] : q \in DOMAIN producers \cap {p}}
                    \cup {[kind |-> "consumer", of |-> k] : k \in ConsumersOf(p)}]_vars

====
